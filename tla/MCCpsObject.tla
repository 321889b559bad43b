---------------------------- MODULE MCCpsObject ----------------------------
(* An object with one string and one with two, in buffers that hold from   *)
(* some to all of their attributes.                                        *)
EXTENDS CpsObject
=============================================================================
