----------------------------- MODULE ApiPaths -----------------------------
(***************************************************************************)
(* utils/api_normalizer.py: the one form in which the paths of frontend    *)
(* requests, backend routes and queries are compared.  A raw path is the   *)
(* segments between its slashes, "" between two slashes that follow each   *)
(* other, with what urlsplit cuts off before and after them.               *)
(***************************************************************************)
EXTENDS Naturals, Sequences

CONSTANTS
  ParamSegments  \* segments that name a parameter: {id}, :id, ${id}, 42

ASSUME ApiPathsAssumption == "{param}" \in ParamSegments

\* normalize_api_path.
NormalizePath(raw) ==
  LET segments == SelectSeq(raw.segments, LAMBDA s : s # "")
  IN [i \in 1..Len(segments) |->
       IF segments[i] \in ParamSegments THEN "{param}" ELSE segments[i]]
=============================================================================
