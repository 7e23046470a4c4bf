----------------------------- MODULE SendLimiter -----------------------------
(***************************************************************************)
(* The Lua scripts that meter the mails to one address                     *)
(* (src/passwordReset.ts, src/registration.ts): at most a number of sends  *)
(* in a window that opens with its first send, and a pause after each.     *)
(* The slot is taken before the mail is handed over and given back when    *)
(* that fails.                                                             *)
(*                                                                         *)
(* Of the times first and last only this is kept: whether the pause after  *)
(* the last send is over.  A window that has passed leaves no record.      *)
(***************************************************************************)
EXTENDS Naturals

Limiters(max) == [count : 0..max, rested : BOOLEAN]

NoSends == [count |-> 0, rested |-> TRUE]

MayReserve(rl, max) == rl.count < max /\ rl.rested

AfterReserve(rl) == [count |-> rl.count + 1, rested |-> FALSE]

\* The slot and the pause are given back, to whichever window is open by now.
AfterRelease(rl) == [count |-> IF rl.count = 0 THEN 0 ELSE rl.count - 1, rested |-> TRUE]

\* The ways time goes on: the window passes, the pause ends (at the cap it does not matter).
Later(rl, max) ==
    {r \in {NoSends, [rl EXCEPT !.rested = TRUE]} : r # rl /\ r.count < max}
=============================================================================
