-------------------------- MODULE MCMetadataStore ---------------------------
(* Instances of MetadataStore for TLC. *)
EXTENDS MetadataStore, TLC

\* Tokens are only compared for equality, so renaming them changes nothing.
TokenSymmetry == Permutations(Tokens)
=============================================================================
