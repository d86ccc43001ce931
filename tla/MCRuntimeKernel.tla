--------------------------- MODULE MCRuntimeKernel ---------------------------
(* Three host threads, two driver handles so that a leaked library leaves   *)
(* one to load, and every kind of artifact.  No symmetry: it is not sound   *)
(* for the liveness property.                                               *)
EXTENDS RuntimeKernel

MCArtifacts == ArtifactType
=============================================================================
