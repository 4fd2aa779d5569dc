------------------------------ MODULE Library ------------------------------
(***************************************************************************)
(* Parts that share no state: of lib/ robust I/O, the set-up of sockets,   *)
(* decimal output in signal handlers and the first version of the          *)
(* protocol, and the transfer of videos.  A behaviour is one of one part,  *)
(* with the others at rest.                                                *)
(***************************************************************************)
EXTENDS Rio, OpenFd, SioLtoa, JdtLegacy, VideoTransfer

VARIABLE part    \* the part that moves

parts == <<vars, openVars, ltoaVars, legacyVars, videoVars, part>>

Only(p) ==
  /\ part = p /\ UNCHANGED part
  /\ p # "rio" => UNCHANGED vars
  /\ p # "open" => UNCHANGED openVars
  /\ p # "ltoa" => UNCHANGED ltoaVars
  /\ p # "legacy" => UNCHANGED legacyVars
  /\ p # "video" => UNCHANGED videoVars

LibraryInit ==
  /\ Init /\ OpenInit /\ LtoaInit /\ LegacyInit /\ VideoInit
  /\ part \in {"rio", "open", "ltoa", "legacy", "video"}

LibraryNext ==
  \/ Only("rio") /\ Next
  \/ Only("open") /\ OpenNext
  \/ Only("ltoa") /\ LtoaNext
  \/ Only("legacy") /\ LegacyNext
  \/ Only("video") /\ VideoNext

(* The fairness of each part.                                              *)
LibraryFairness ==
  /\ WF_parts(Only("rio") /\ ReadStep)
  /\ \A p \in Process : WF_parts(Only("open") /\ OpenStep(p))
  /\ WF_parts(Only("legacy") /\ LegacyStep)

LibrarySpec == LibraryInit /\ [][LibraryNext]_parts /\ LibraryFairness
-----------------------------------------------------------------------------
(* No loop of lib/unix_api.c goes round for ever by itself: each turn of a *)
(* read, of the search of an address and of the conversion of a number     *)
(* leaves less to do.  What CallsReturn and OpenEnds add is that the steps *)
(* are taken.  Jdt::recvMsg() of lib/jdt.cc is not among these loops: at   *)
(* the end of the stream it goes round for ever (see LegacyAdvances).      *)
CallsAdvance == RioAdvances /\ OpenAdvances /\ LtoaAdvances
=============================================================================
