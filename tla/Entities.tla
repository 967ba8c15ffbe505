------------------------------ MODULE Entities ----------------------------
(***************************************************************************)
(* The identities every component of the generation pipeline refers to.    *)
(***************************************************************************)
CONSTANT
  Clients   \* ids of the clients on the books when the behaviour starts
===========================================================================
