------------------------------- MODULE MCKeys -------------------------------
(***************************************************************************)
(* The key library for TLC.  A program is linked with key_devel.c or with  *)
(* key_reciva.c, which have no state in common; each build is explored by  *)
(* itself.                                                                 *)
(***************************************************************************)
EXTENDS KeyDevel, KeyReciva

VARIABLE build

InitKeys == /\ build \in {"devel", "reciva"}
            /\ Init /\ key_init
            /\ build = "devel" => fds = {}

Devel(A) == build = "devel" /\ A /\ UNCHANGED <<build, radiovars>>
Reciva(A) == build = "reciva" /\ A /\ UNCHANGED <<build, vars>>

NextKeys == Devel(Next) \/ Reciva(RadioNext)

\* The application goes on polling (FairSpec, FairRadioSpec).
SpecKeys == /\ InitKeys /\ [][NextKeys]_<<build, vars, radiovars>>
            /\ WF_<<build, vars, radiovars>>(Devel(PollQueue))
            /\ WF_<<build, vars, radiovars>>(Reciva(Poll \/ PollGone))
=============================================================================
