---------------------------- MODULE MCKeyManager ----------------------------
(***************************************************************************)
(* An owner that rotates and crashes once, a replica of its record, and    *)
(* the calls of one seeker.                                                *)
(***************************************************************************)
EXTENDS KeyManager

CONSTANTS l1, d1
=============================================================================
