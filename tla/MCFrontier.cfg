\* Seeds and links in every spelling: the keys they come to, and the limits that keep
\* them out.  A page found from the seed is beyond the one finite depth, the target of
\* a redirect from it is not.
CONSTANTS
    Null = Null
    Lower <- Hosts
    Octets <- SomeOctets
    Text <- SomeText
    Spell <- SomeSpell
    Blank = ""
    Seeds <- SomeSeeds
    Found <- SomeLinks
    Limits <- SomeLimits
    MaxFound = 1
SPECIFICATION Spec
INVARIANTS TypeOK OneRowPerPage KeysAreNormal OnSite WithinLimits SurvivesResume
