-------------------------- MODULE OperationsProofs --------------------------
(***************************************************************************)
(* Proofs about what an operator runs: the migrations of a booting         *)
(* process (for any number of processes, releases and killed               *)
(* connections), the shutdown of a service (for any amount of work in      *)
(* flight), the rotation of the portal's client key (for any periods that  *)
(* satisfy PortalKeyAssumption) and first-run setup (for any number of     *)
(* wizard pages, requests and boots).                                      *)
(***************************************************************************)
EXTENDS Migrations, Lifecycle, PortalKey, Setup, FiniteSetTheorems, TLAPS

-----------------------------------------------------------------------------
(* Migrations.  Whoever is past the lock holds it, so what it read of the  *)
(* recorded files is, together with the files it has gone through, what is *)
(* recorded.                                                               *)

RunType ==
    [state : {"off", "busy", "ok", "failed"}, at : 1..3, files : SUBSET AllFiles, done : SUBSET AllFiles,
     left : SUBSET AllFiles, open : BOOLEAN, cut : BOOLEAN]

MigrationsTypeOK ==
    /\ holder \in Boots \cup {NoBoot}
    /\ stamped \in SUBSET AllFiles
    /\ executed \in [AllFiles -> Nat]
    /\ run \in [Boots -> RunType]

Busy(b) == run[b].state = "busy"

LockInv == \A b \in Boots : Busy(b) /\ run[b].at >= 2 => holder = b

\* What a call that is at work knows of the files.
Gone(r) == r.files \ r.left
Sound(r, recorded) ==
    /\ r.left \subseteq r.files
    /\ r.at < 3 => ~r.open /\ r.left = r.files
    /\ r.at = 3 =>
         /\ Gone(r) \subseteq recorded
         /\ r.done \subseteq recorded
         /\ recorded \subseteq r.done \cup Gone(r)
FilesInv ==
    \A b \in Boots : Busy(b) =>
        /\ Sound(run[b], stamped)
        /\ run[b].open => \A f : Current(b, f) => f \notin run[b].done \cup Baseline

\* An open transaction belongs to a call at work.
OpenInv == \A b \in Boots : run[b].open => Busy(b) /\ run[b].at = 3

\* What b may turn to without recording anything.
MayMoveTo(b, r) ==
    /\ r.open => r.state = "busy" /\ r.at = 3
    /\ r.state = "busy" =>
         /\ r.at >= 2 => holder' = b
         /\ Sound(r, stamped)
         /\ r.open => r.left = run[b].left
                      /\ \A f : Current(b, f) => f \notin r.done \cup Baseline
    /\ r.state = "ok" => r.files \subseteq stamped
    /\ r.state = "failed" => r.cut

\* A file was executed once if it is recorded and not stamped, else never.
ExecutedInv == \A f \in AllFiles : executed[f] = IF f \in stamped \ Baseline THEN 1 ELSE 0

\* A call ends well only over its whole release, and ill for its own reason.
EndsInv ==
    \A b \in Boots : /\ run[b].state = "ok" => run[b].files \subseteq stamped
                     /\ run[b].state = "failed" => run[b].cut

MigrationsInv ==
    MigrationsTypeOK /\ LockInv /\ FilesInv /\ OpenInv /\ ExecutedInv /\ EndsInv

LEMMA MigrationsSound == MigrationsInv => MigratedOnce
<1> SUFFICES ASSUME MigrationsInv PROVE MigratedOnce
  OBVIOUS
<1>1. \A f \in AllFiles : executed[f] <= 1 /\ (f \in Baseline => executed[f] = 0)
  BY DEF MigrationsInv, ExecutedInv
<1>2. \A f \in stamped \ Baseline : executed[f] = 1
  BY DEF MigrationsInv, ExecutedInv, MigrationsTypeOK
\* An earlier-named file of the release is not left, so it was gone through.
<1>3. ASSUME NEW b \in Boots, run[b].open, NEW f \in run[b].left, NEW e \in run[b].files, Current(b, f), e < f
      PROVE  e \in stamped
  <2>1. f \in Nat /\ e \in Nat
    <3>1. run[b] \in RunType
      BY DEF MigrationsInv, MigrationsTypeOK
    <3>2. f \in AllFiles /\ e \in AllFiles
      BY <3>1 DEF RunType
    <3> QED BY <3>2, MigrationsAssumption DEF AllFiles
  <2>2. e \notin run[b].left
    BY <1>3, <2>1 DEF Current
  <2> QED BY <1>3, <2>2 DEF MigrationsInv, OpenInv, FilesInv, Sound, Gone
<1> QED BY <1>1, <1>2, <1>3 DEF MigratedOnce, MigrationsInv, EndsInv

LEMMA MigrationsStart == MigrationsInit => MigrationsInv
BY MigrationsAssumption
   DEF MigrationsInit, MigrationsInv, MigrationsTypeOK, RunType, LockInv, FilesInv, OpenInv, ExecutedInv,
       EndsInv, Busy

\* Going on to the next file, and to the next stage.
LEMMA PassedFile ==
    ASSUME NEW b \in Boots, run[b] \in RunType, NEW f
    PROVE  /\ Passed(b, f) \in RunType
           /\ Passed(b, f).left = run[b].left \ {f} /\ Passed(b, f).open = FALSE
           /\ Passed(b, f).state = run[b].state /\ Passed(b, f).at = run[b].at
           /\ Passed(b, f).files = run[b].files /\ Passed(b, f).done = run[b].done
<1>2. Passed(b, f) = [run[b] EXCEPT !.left = run[b].left \ {f}, !.open = FALSE]
  BY DEF Passed
<1>3. QED
  BY <1>2 DEF RunType

LEMMA AdvancedStage ==
    ASSUME NEW b \in Boots, run[b] \in RunType, run[b].at <= 2
    PROVE  /\ Advance(b) \in RunType
           /\ Advance(b).at = run[b].at + 1 /\ Advance(b).state = run[b].state
           /\ Advance(b).files = run[b].files /\ Advance(b).done = run[b].done
           /\ Advance(b).left = run[b].left /\ Advance(b).open = run[b].open
<1>1. run[b].at \in 1..2 /\ run[b].at + 1 \in 1..3
  BY DEF RunType
<1>2. Advance(b) = [run[b] EXCEPT !.at = run[b].at + 1]
  BY DEF Advance
<1>3. QED
  BY <1>1, <1>2 DEF RunType

LEMMA MigrationsStep == MigrationsInv /\ [MigrationsNext]_migrationVars => MigrationsInv'
<1> SUFFICES ASSUME MigrationsInv, [MigrationsNext]_migrationVars PROVE MigrationsInv'
  OBVIOUS
<1> USE MigrationsAssumption
<1>t. /\ holder \in Boots \cup {NoBoot} /\ stamped \in SUBSET AllFiles
      /\ executed \in [AllFiles -> Nat] /\ run \in [Boots -> RunType]
  BY DEF MigrationsInv, MigrationsTypeOK
\* A step of b that records nothing and gives up no lock but its own.
<1>0. ASSUME NEW b \in Boots, NEW r \in RunType, run' = [run EXCEPT ![b] = r],
             UNCHANGED <<stamped, executed>>,
             holder' = holder \/ (holder = NoBoot /\ holder' = b)
               \/ (holder = b /\ holder' = NoBoot /\ r.state # "busy"),
             MayMoveTo(b, r)
      PROVE  MigrationsInv'
  <2>1. run'[b] = r /\ \A c \in Boots : c # b => run'[c] = run[c]
    BY <1>0, <1>t
  <2>2. MigrationsTypeOK'
    BY <1>0, <1>t DEF MigrationsTypeOK
  <2>3. LockInv'
    BY <1>0, <1>t, <2>1 DEF LockInv, Busy, MigrationsInv, RunType, MayMoveTo
  <2>4. FilesInv'
    <3>1. ASSUME r.state = "busy"
          PROVE  Sound(r, stamped) /\ (r.open => \A f : Current(b, f)' => f \notin r.done \cup Baseline)
      BY <1>0, <2>1, <3>1 DEF MayMoveTo, Current
    <3>2. ASSUME NEW c \in Boots, Busy(c)'
          PROVE  /\ Sound(run'[c], stamped')
                 /\ run'[c].open => \A f : Current(c, f)' => f \notin run'[c].done \cup Baseline
      <4>1. CASE c = b
        BY <1>0, <2>1, <3>1, <3>2, <4>1 DEF Busy
      <4>2. CASE c # b
        BY <1>0, <2>1, <3>2, <4>2 DEF FilesInv, Busy, MigrationsInv, Current
      <4> QED BY <4>1, <4>2
    <3> QED BY <3>2 DEF FilesInv
  <2>5. ExecutedInv' /\ EndsInv' /\ OpenInv'
    BY <1>0, <2>1 DEF ExecutedInv, EndsInv, OpenInv, Busy, MigrationsInv, MayMoveTo
  <2>6. QED
    BY <2>2, <2>3, <2>4, <2>5 DEF MigrationsInv
\* A step of b that records the file it is at.
<1>z. ASSUME NEW b \in Boots, NEW r \in RunType, run' = [run EXCEPT ![b] = r],
             Busy(b), run[b].at = 3, NEW f \in run[b].left, f \notin run[b].done,
             stamped' = stamped \cup {f},
             executed' = IF f \in Baseline THEN executed ELSE [executed EXCEPT ![f] = @ + 1],
             \/ holder' = holder /\ r = Passed(b, f)
             \/ holder' = NoBoot /\ r.state = "failed" /\ r.cut /\ ~r.open
      PROVE  MigrationsInv'
  <2>1. /\ run'[b] = r /\ run[b] \in RunType /\ f \in AllFiles /\ holder = b
        /\ \A c \in Boots : c # b => run'[c] = run[c] /\ ~(Busy(c) /\ run[c].at >= 2)
    <3>1. run \in [Boots -> RunType] /\ run[b] \in RunType
      BY <1>t
    <3>2. f \in AllFiles
      BY <1>z, <3>1 DEF RunType
    <3>3. holder = b /\ \A c \in Boots : Busy(c) /\ run[c].at >= 2 => holder = c
      BY <1>z, <3>1 DEF LockInv, MigrationsInv
    <3>4. QED
      BY <1>z, <3>1, <3>2, <3>3
  <2>p. /\ Passed(b, f).left = run[b].left \ {f} /\ Passed(b, f).open = FALSE
        /\ Passed(b, f).state = "busy" /\ Passed(b, f).at = 3
        /\ Passed(b, f).files = run[b].files /\ Passed(b, f).done = run[b].done
    BY <1>z, <2>1, PassedFile DEF Busy
  <2>2. Sound(run[b], stamped) /\ f \in run[b].files /\ f \notin stamped
    <3>1. Sound(run[b], stamped)
      BY <1>z DEF FilesInv, MigrationsInv
    <3> QED BY <1>z, <3>1 DEF Sound, Gone
  <2>4. MigrationsTypeOK'
    <3>1. executed' \in [AllFiles -> Nat]
      BY <1>t, <1>z, <2>1
    <3> QED BY <1>t, <1>z, <2>1, <3>1 DEF MigrationsTypeOK
  <2>5. LockInv'
    BY <1>t, <1>z, <2>1, <2>p DEF LockInv, Busy, MigrationsInv, RunType
  <2>6. FilesInv'
    <3>1. \A c \in Boots : c # b => (Busy(c)' => ~(run'[c].at = 3) /\ ~run'[c].open)
      BY <2>1 DEF Busy, RunType, MigrationsInv, OpenInv
    <3>2. r.state = "busy" => /\ r.left = run[b].left \ {f} /\ ~r.open /\ r.files = run[b].files
                              /\ r.done = run[b].done /\ r.at = 3
      BY <1>z, <2>p
    <3>3. r.state = "busy" => Sound(r, stamped')
      BY <1>z, <2>2, <3>2 DEF Sound, Gone
    <3>4. ASSUME NEW c \in Boots, Busy(c)'
          PROVE  /\ Sound(run'[c], stamped')
                 /\ run'[c].open => \A g : Current(c, g)' => g \notin run'[c].done \cup Baseline
      <4>1. CASE c = b
        BY <2>1, <3>2, <3>3, <3>4, <4>1 DEF Busy
      <4>2. CASE c # b
        BY <2>1, <3>1, <3>4, <4>2 DEF FilesInv, Busy, MigrationsInv, Sound
      <4>3. QED
        BY <4>1, <4>2
    <3> QED BY <3>4 DEF FilesInv
  <2>7. ExecutedInv'
    BY <1>t, <1>z, <2>1, <2>2 DEF ExecutedInv, MigrationsInv
  <2>8. EndsInv' /\ OpenInv'
    <3>1. r.state # "ok" /\ (r.state = "failed" => r.cut) /\ ~r.open
      BY <1>z, <2>p
    <3>2. QED
      BY <1>z, <2>1, <3>1 DEF MigrationsInv, EndsInv, OpenInv, Busy
  <2>9. QED
    BY <2>4, <2>5, <2>6, <2>7, <2>8 DEF MigrationsInv
<1>1. ASSUME NEW b \in Boots, connect(b) PROVE MigrationsInv'
  <2>1. PICK n \in Releases :
          run' = [run EXCEPT ![b] = [state |-> "busy", at |-> 1, files |-> n, done |-> {}, left |-> n,
                                     open |-> FALSE, cut |-> FALSE]]
    BY <1>1 DEF connect, Moves
  <2> DEFINE r == [state |-> "busy", at |-> 1, files |-> n, done |-> {}, left |-> n,
                   open |-> FALSE, cut |-> FALSE]
  <2>2. r \in RunType /\ MayMoveTo(b, r) /\ run' = [run EXCEPT ![b] = r]
    BY <2>1 DEF RunType, MayMoveTo, AllFiles, Sound
  <2> HIDE DEF r
  <2>3. QED
    BY <1>0, <1>1, <2>2 DEF connect
<1>b. ASSUME NEW b \in Boots, Busy(b)
      PROVE  /\ run[b] \in RunType /\ Sound(run[b], stamped)
             /\ run[b].at >= 2 => holder = b
             /\ run[b].open => run[b].at = 3 /\ \A f : Current(b, f) => f \notin run[b].done \cup Baseline
  BY <1>b, <1>t DEF MigrationsInv, FilesInv, LockInv, OpenInv
<1>2. ASSUME NEW b \in Boots, lock(b) PROVE MigrationsInv'
  <2>1. run[b] \in RunType /\ Busy(b) /\ run[b].at = 1
    BY <1>2, <1>t DEF lock, At, Prelude, Busy, RunType
  <2> DEFINE r == Advance(b)
  <2>2. r \in RunType /\ r.at = 2 /\ r.left = run[b].left /\ r.open = run[b].open
        /\ r.files = run[b].files /\ r.state = "busy"
    BY <2>1, AdvancedStage DEF Busy
  <2>3. MayMoveTo(b, r)
    BY <1>2, <1>b, <2>1, <2>2 DEF lock, MayMoveTo, Sound
  <2>4. run' = [run EXCEPT ![b] = r] /\ holder = NoBoot /\ holder' = b /\ UNCHANGED <<stamped, executed>>
    BY <1>2 DEF lock, Moves
  <2> HIDE DEF r
  <2>5. QED
    BY <1>0, <2>2, <2>3, <2>4
\* Nothing is gone through yet: what is recorded is what was read.
<1>3. ASSUME NEW b \in Boots, read(b) PROVE MigrationsInv'
  <2>1. run[b] \in RunType /\ Busy(b) /\ run[b].at = 2
    BY <1>3, <1>t DEF read, At, Prelude, Busy, RunType
  <2> DEFINE r == [Advance(b) EXCEPT !.done = stamped]
  <2>2. /\ r \in RunType /\ r.state = "busy" /\ r.at = 3 /\ r.done = stamped /\ r.left = run[b].left
        /\ r.open = FALSE /\ r.files = run[b].files
    <3>1. Advance(b) \in RunType /\ Advance(b).at = 3 /\ Advance(b).state = "busy"
          /\ Advance(b).left = run[b].left /\ Advance(b).open = FALSE /\ Advance(b).files = run[b].files
      BY <1>b, <2>1, AdvancedStage DEF Busy, RunType
    <3>2. QED
      BY <1>t, <3>1 DEF RunType
  <2>3. MayMoveTo(b, r)
    <3>1. holder' = b /\ Sound(run[b], stamped) /\ run[b].left = run[b].files
      BY <1>3, <1>b, <2>1 DEF read, Sound
    <3> HIDE DEF r
    <3>3. QED
      BY <2>2, <3>1 DEF MayMoveTo, Sound, Gone
  <2>4. run' = [run EXCEPT ![b] = r] /\ holder' = holder /\ UNCHANGED <<stamped, executed>>
    BY <1>3 DEF read, Moves
  <2> HIDE DEF r
  <2>5. QED
    BY <1>0, <2>2, <2>3, <2>4
<1>4. ASSUME NEW b \in Boots, skip(b) PROVE MigrationsInv'
  <2>1. run[b] \in RunType /\ Busy(b) /\ run[b].at = 3 /\ ~run[b].open
    BY <1>4, <1>t DEF skip, InFiles, Busy
  <2>2. PICK f \in run[b].done : Current(b, f) /\ run' = [run EXCEPT ![b] = Passed(b, f)]
    BY <1>4 DEF skip, Moves
  <2> DEFINE r == Passed(b, f)
  <2>3. /\ r \in RunType /\ r.left = run[b].left \ {f} /\ ~r.open /\ r.files = run[b].files
        /\ r.done = run[b].done /\ r.at = 3 /\ r.state = "busy"
    BY <2>1, PassedFile DEF Busy
  <2>4. run' = [run EXCEPT ![b] = r] /\ holder' = holder /\ UNCHANGED <<stamped, executed>>
    BY <1>4, <2>2 DEF skip
  <2> HIDE DEF r
  <2>5. MayMoveTo(b, r)
    BY <1>b, <2>1, <2>2, <2>3, <2>4 DEF MayMoveTo, Sound, Gone
  <2>6. QED
    BY <1>0, <2>3, <2>4, <2>5
<1>5. ASSUME NEW b \in Boots, stamp(b) PROVE MigrationsInv'
  <2>1. run[b] \in RunType /\ Busy(b) /\ run[b].at = 3
    BY <1>5, <1>t DEF stamp, InFiles, Busy
  <2>2. PICK f \in Baseline \ run[b].done :
          Current(b, f) /\ stamped' = stamped \cup {f} /\ run' = [run EXCEPT ![b] = Passed(b, f)]
    BY <1>5 DEF stamp, Moves
  <2>3. Passed(b, f) \in RunType /\ f \in run[b].left
    BY <2>1, <2>2, PassedFile DEF Current
  <2>4. holder' = holder /\ executed' = executed
    BY <1>5 DEF stamp
  <2>5. QED
    BY <1>z, <2>1, <2>2, <2>3, <2>4
<1>6. ASSUME NEW b \in Boots, begin(b) PROVE MigrationsInv'
  <2>1. run[b] \in RunType /\ Busy(b) /\ run[b].at = 3
    BY <1>6, <1>t DEF begin, InFiles, Busy
  <2> DEFINE r == [run[b] EXCEPT !.open = TRUE]
  <2>2. r \in RunType /\ r.left = run[b].left /\ r.files = run[b].files /\ r.done = run[b].done
        /\ r.at = 3 /\ r.state = "busy"
    BY <2>1 DEF RunType, Busy
  <2>3. \A f : Current(b, f) => f \notin r.done \cup Baseline
    <3>1. PICK f \in run[b].left \ (Baseline \cup run[b].done) : Current(b, f)
      BY <1>6 DEF begin
    <3>2. ASSUME NEW g, Current(b, g) PROVE g = f
      <4>1. f \in Nat /\ g \in Nat
        BY <2>1, <3>1, <3>2 DEF Current, RunType, AllFiles
      <4> QED BY <3>1, <3>2, <4>1 DEF Current
    <3> QED BY <2>2, <3>1, <3>2
  <2>4. run' = [run EXCEPT ![b] = r] /\ holder' = holder /\ UNCHANGED <<stamped, executed>>
    BY <1>6 DEF begin, Moves
  <2> HIDE DEF r
  <2>5. MayMoveTo(b, r)
    BY <1>b, <2>1, <2>2, <2>3, <2>4 DEF MayMoveTo, Sound, Gone
  <2>6. QED
    BY <1>0, <2>2, <2>4, <2>5
\* The row cannot be there already: nobody else has recorded anything since
\* the list was read.
<1>7. ASSUME NEW b \in Boots, commit(b) PROVE MigrationsInv'
  <2>1. run[b] \in RunType /\ Busy(b) /\ run[b].at = 3 /\ run[b].open
    BY <1>7, <1>t DEF commit, InFiles, Busy
  <2>2. PICK f \in run[b].left : Current(b, f) /\
          \/ f \notin stamped /\ Recorded(f) /\ run' = [run EXCEPT ![b] = Passed(b, f)] /\ UNCHANGED holder
          \/ f \in stamped
    BY <1>7 DEF commit, Moves
  <2>3. f \notin run[b].done /\ f \notin Baseline /\ f \notin stamped
    BY <1>b, <2>1, <2>2 DEF Sound, Gone
  <2>4. Passed(b, f) \in RunType
    BY <2>1, PassedFile
  <2>5. run' = [run EXCEPT ![b] = Passed(b, f)] /\ holder' = holder
        /\ executed' = [executed EXCEPT ![f] = @ + 1] /\ stamped' = stamped \cup {f}
    BY <2>2, <2>3 DEF Recorded
  <2>6. QED
    BY <1>z, <2>1, <2>3, <2>4, <2>5
<1>8. ASSUME NEW b \in Boots, unlock(b) PROVE MigrationsInv'
  <2>1. run[b] \in RunType /\ Busy(b) /\ run[b].at = 3 /\ run[b].left = {}
    BY <1>8, <1>t DEF unlock, InFiles, Busy
  <2> DEFINE r == Ends(b, "ok")
  <2>2. r \in RunType /\ r.state = "ok" /\ r.files = run[b].files /\ ~r.open
    BY <2>1 DEF Ends, RunType
  <2>3. MayMoveTo(b, r)
    BY <1>b, <2>1, <2>2 DEF MayMoveTo, Sound, Gone
  <2>4. run' = [run EXCEPT ![b] = r] /\ holder = b /\ holder' = NoBoot /\ UNCHANGED <<stamped, executed>>
    BY <1>8, <1>b, <2>1 DEF unlock, Moves, Freed
  <2> HIDE DEF r
  <2>5. QED
    BY <1>0, <2>2, <2>3, <2>4
<1>9. ASSUME NEW b \in Boots, cutOff(b) PROVE MigrationsInv'
  <2>1. run[b] \in RunType /\ Busy(b)
    BY <1>9, <1>t DEF cutOff, Busy
  <2> DEFINE r == [Ends(b, "failed") EXCEPT !.cut = TRUE]
  <2>2. r \in RunType /\ r.state = "failed" /\ r.cut /\ ~r.open
    BY <2>1 DEF Ends, RunType
  <2>3. run' = [run EXCEPT ![b] = r] /\ holder' = Freed(b)
    BY <1>9 DEF cutOff, Moves
  <2>4. MayMoveTo(b, r)
    BY <2>2 DEF MayMoveTo
  <2>5. CASE UNCHANGED <<stamped, executed>>
    <3>1. holder' = holder \/ (holder = b /\ holder' = NoBoot)
      BY <2>3 DEF Freed
    <3> HIDE DEF r
    <3>2. QED
      BY <1>0, <2>2, <2>3, <2>4, <2>5, <3>1
  \* The commit went through before the connection was lost.
  <2>6. CASE run[b].open /\ \E f \in run[b].left \ stamped : Current(b, f) /\ Recorded(f)
    <3>0. PICK f \in run[b].left \ stamped : Current(b, f) /\ Recorded(f)
      BY <2>6
    <3>1. run[b].at = 3 /\ f \notin run[b].done /\ f \notin Baseline /\ holder' = NoBoot
      BY <1>b, <2>1, <2>3, <2>6, <3>0 DEF Freed
    <3> HIDE DEF r
    <3>3. QED
      BY <1>z, <2>1, <2>2, <2>3, <3>0, <3>1 DEF Recorded
  <2>7. QED
    BY <1>9, <2>5, <2>6 DEF cutOff
<1>10. ASSUME NEW b \in Boots, restart(b) PROVE MigrationsInv'
  <2>1. run[b] \in RunType /\ ~run[b].open
    BY <1>10, <1>t DEF restart, MigrationsInv, OpenInv, Busy
  <2> DEFINE r == [run[b] EXCEPT !.state = "off"]
  <2>2. r \in RunType /\ r.state = "off" /\ ~r.open
    BY <2>1 DEF RunType
  <2>3. run' = [run EXCEPT ![b] = r] /\ holder' = holder /\ UNCHANGED <<stamped, executed>>
    BY <1>10 DEF restart, Moves
  <2>4. MayMoveTo(b, r)
    BY <2>2 DEF MayMoveTo
  <2> HIDE DEF r
  <2>5. QED
    BY <1>0, <2>2, <2>3, <2>4
<1>11. CASE UNCHANGED migrationVars
  BY <1>11 DEF migrationVars, MigrationsInv, MigrationsTypeOK, LockInv, FilesInv, OpenInv, ExecutedInv,
               EndsInv, Busy, Current
<1>12. QED
  BY <1>1, <1>2, <1>3, <1>4, <1>5, <1>6, <1>7, <1>8, <1>9, <1>10, <1>11 DEF MigrationsNext

(* Whatever boots together, dies and starts again on whichever release: no *)
(* file's statements are committed twice, history is never replayed, a     *)
(* file is applied over every earlier-named file of its own release, a     *)
(* success leaves every file of its release recorded and a boot fails only *)
(* for a reason of its own (runMigrations).                                *)
THEOREM AlwaysMigratedOnce == MigrationsSpec => []MigratedOnce
BY MigrationsSound, MigrationsStart, MigrationsStep, PTL DEF MigrationsSpec

-----------------------------------------------------------------------------
(* Lifecycle.                                                              *)

Phases == {"none", "http", "drain", "close", "over"}
BootStages == {"idle", "resolve", "migrate", "key"} \cup Settled
LifeType ==
    [stopping : BOOLEAN, boot : BootStages, http : {"none", "open", "closing", "closed"},
     code : {0, 1}, timers : BOOLEAN, pump : BOOLEAN, phase : Phases,
     exits : {<< >>, <<0>>, <<1>>}, hurt : BOOLEAN]

WorkType == [requests : Nat, orphans : Nat, tasks : Nat, drains : Nat]

\* Nothing is in flight that the shutdown waits for.
WaitedOut == work.requests = 0 /\ work.tasks = 0 /\ work.drains = 0

LifecycleTypeOK ==
    /\ kind \in {"sso", "portal"}
    /\ life \in LifeType
    /\ work \in WorkType
    /\ clients \in {"open", "closing", "closed", "forced"}

\* A stop closes the door for good: what is open, ticks or pumps was there
\* before, and the shutdown gets past a stage only when it is empty.
DoorInv ==
    /\ life.stopping = (life.phase # "none")
    /\ life.stopping => ~life.timers /\ ~life.pump /\ life.http # "open"
    /\ life.http \in {"none", "closed"} => work.requests = 0
    /\ life.phase \in {"drain", "close"} => life.http \in {"none", "closed"} /\ life.boot \in Settled
    /\ life.phase = "close" => work.tasks = 0 /\ work.drains = 0

ExitInv ==
    /\ (life.exits # << >>) = (life.phase = "over")
    /\ life.hurt => life.code = 1
    /\ clients = "closing" => life.phase = "close"
    /\ clients \in {"closed", "forced"} => life.phase = "over"
    /\ clients = "closed" => WaitedOut /\ life.boot \in Settled
    /\ life.exits = <<0>> => clients = "closed" /\ ~life.hurt

LifecycleInv == LifecycleTypeOK /\ DoorInv /\ ExitInv

LEMMA LifecycleStart == ASSUME NEW k \in {"sso", "portal"}, LifecycleInit(k) PROVE LifecycleInv
BY DEF LifecycleInit, LifecycleInv, LifecycleTypeOK, LifeType, BootStages, Phases, DoorInv, ExitInv,
       NoWork, WorkType, WaitedOut, Settled

\* The tuples of exit codes are distinct.
LEMMA ExitCodes == << >> # <<0>> /\ << >> # <<1>> /\ <<0>> # <<1>>
OBVIOUS

LEMMA StopFacts ==
    ASSUME NEW l \in LifeType, NEW c \in {0, 1}
    PROVE  /\ stop(l, c) \in LifeType
           /\ stop(l, c).stopping = TRUE
           /\ stop(l, c).boot = l.boot /\ stop(l, c).exits = l.exits /\ stop(l, c).hurt = l.hurt
           /\ stop(l, c).code = IF c > l.code THEN c ELSE l.code
           /\ l.stopping = TRUE => /\ stop(l, c).phase = l.phase /\ stop(l, c).http = l.http
                                   /\ stop(l, c).timers = l.timers /\ stop(l, c).pump = l.pump
           /\ l.stopping = FALSE => /\ stop(l, c).phase = "http" /\ stop(l, c).timers = FALSE /\ stop(l, c).pump = FALSE
                                    /\ stop(l, c).http = IF l.http = "open" THEN "closing" ELSE l.http
BY DEF stop, LifeType, Phases

LEMMA ExitFacts ==
    ASSUME NEW l \in LifeType, NEW c \in {0, 1}, l.exits = << >>
    PROVE  /\ exit(l, c) \in LifeType
           /\ exit(l, c) = [l EXCEPT !.exits = <<c>>, !.phase = "over"]
BY DEF exit, LifeType, Phases

\* Stopping a process that runs keeps the invariant, provided that whatever
\* hurt it raises the exit code.
LEMMA StopKeeps ==
    ASSUME LifecycleInv, NEW m \in LifeType, NEW c \in {0, 1}, Running,
           m.stopping = life.stopping, m.http = life.http, m.phase = life.phase,
           m.timers = life.timers, m.pump = life.pump, m.exits = life.exits,
           m.boot = life.boot \/ m.boot \in Settled,
           m.hurt => c = 1 \/ m.code = 1,
           life' = stop(m, c), UNCHANGED <<kind, work, clients>>
    PROVE  LifecycleInv'
<1> USE DEF Settled
<1>0. LifecycleTypeOK /\ DoorInv /\ ExitInv /\ life.phase # "over" /\ life \in LifeType
  BY DEF LifecycleInv, LifecycleTypeOK, Running
<1>1. life' \in LifeType /\ life'.stopping = TRUE /\ life'.boot = m.boot /\ life'.exits = life.exits
  BY StopFacts
<1>2. life'.hurt => life'.code = 1
  <2>1. life'.hurt = m.hurt /\ life'.code = IF c > m.code THEN c ELSE m.code
    BY StopFacts
  <2>2. m.code \in {0, 1} /\ m.hurt \in BOOLEAN
    BY DEF LifeType
  <2>3. QED
    BY <2>1, <2>2
<1>3. life.exits = << >> /\ clients \notin {"closed", "forced"}
  BY <1>0 DEF ExitInv
<1>4. CASE life.stopping = TRUE
  <2>1. /\ life'.phase = life.phase /\ life'.http = life.http
        /\ life'.timers = life.timers /\ life'.pump = life.pump
    <3>1. m.stopping = TRUE
      BY <1>4
    <3>2. /\ stop(m, c).phase = m.phase /\ stop(m, c).http = m.http
          /\ stop(m, c).timers = m.timers /\ stop(m, c).pump = m.pump
      BY <3>1 DEF stop, LifeType
    <3>3. QED
      BY <3>2
  <2>2. DoorInv'
    BY <1>0, <1>1, <1>4, <2>1 DEF DoorInv
  <2>3. ExitInv'
    BY <1>0, <1>1, <1>2, <1>3, <2>1, ExitCodes DEF ExitInv
  <2>4. QED
    BY <1>0, <1>1, <2>2, <2>3 DEF LifecycleInv, LifecycleTypeOK
<1>5. CASE life.stopping = FALSE
  <2>1. /\ life'.phase = "http" /\ life'.timers = FALSE /\ life'.pump = FALSE
        /\ life'.http = IF life.http = "open" THEN "closing" ELSE life.http
    <3>1. m.stopping = FALSE
      BY <1>5
    <3>2. /\ stop(m, c).phase = "http" /\ stop(m, c).timers = FALSE /\ stop(m, c).pump = FALSE
          /\ stop(m, c).http = IF m.http = "open" THEN "closing" ELSE m.http
      BY <3>1, StopFacts, Zenon
    <3>3. QED
      BY <3>2
  <2>2. DoorInv'
    BY <1>0, <1>1, <2>1 DEF DoorInv
  <2>3. life.phase = "none"
    BY <1>0, <1>5 DEF DoorInv
  <2>4. ExitInv'
    BY <1>0, <1>1, <1>2, <1>3, <2>1, <2>3, ExitCodes DEF ExitInv
  <2>5. QED
    BY <1>0, <1>1, <2>2, <2>4 DEF LifecycleInv, LifecycleTypeOK
<1>6. QED
  BY <1>0, <1>4, <1>5 DEF LifeType

LEMMA LifecycleStep == ASSUME LifecycleInv, [LifecycleNext]_lifecycleVars PROVE LifecycleInv'
<1> USE ExitCodes DEF Settled
<1>0. /\ LifecycleTypeOK /\ DoorInv /\ ExitInv
      /\ life \in LifeType /\ work \in WorkType
  BY DEF LifecycleInv, LifecycleTypeOK
<1>1. CASE boot
  <2>1. life' \in LifeType
    <3>1. \/ \E b \in {"skipped", "resolve"} : life' = [life EXCEPT !.boot = b]
          \/ ~life.stopping /\ life' = listen([life EXCEPT !.boot = "done"])
      BY <1>1 DEF boot, Stage
    <3>2. CASE \E b \in {"skipped", "resolve"} : life' = [life EXCEPT !.boot = b]
      BY <1>0, <3>2 DEF LifeType, BootStages
    <3>3. CASE ~life.stopping /\ life' = listen([life EXCEPT !.boot = "done"])
      <4>1. life' = [life EXCEPT !.boot = "done", !.http = "open"]
        BY <1>0, <3>3 DEF listen, LifeType
      <4> QED BY <1>0, <4>1 DEF LifeType, BootStages
    <3> QED BY <3>1, <3>2, <3>3
  <2>2. /\ life.boot = "idle" /\ life'.boot \in {"skipped", "done", "resolve"}
        /\ life'.stopping = life.stopping /\ life'.code = life.code /\ life'.timers = life.timers
        /\ life'.pump = life.pump /\ life'.phase = life.phase /\ life'.exits = life.exits
        /\ life'.hurt = life.hurt
        /\ life'.http = life.http \/ (~life.stopping /\ life'.http = "open")
        /\ UNCHANGED <<kind, work, clients>>
    BY <1>0, <1>1 DEF boot, Stage, listen, LifeType
  <2>3. QED
    BY <1>0, <2>1, <2>2 DEF LifecycleInv, LifecycleTypeOK, DoorInv, ExitInv, WaitedOut, WorkType
<1>2. CASE resolved
  <2>1. life' \in LifeType
    BY <1>0, <1>2 DEF resolved, Stage, listen, LifeType, BootStages
  <2>2. /\ life.boot = "resolve" /\ life'.boot \in {"done", "migrate"}
        /\ life'.stopping = life.stopping /\ life'.code = life.code /\ life'.timers = life.timers
        /\ life'.pump = life.pump /\ life'.phase = life.phase /\ life'.exits = life.exits
        /\ life'.hurt = life.hurt
        /\ life'.http = life.http \/ (~life.stopping /\ life'.http = "open")
        /\ life'.boot = "migrate" => ~life.stopping
        /\ UNCHANGED <<kind, work, clients>>
    BY <1>0, <1>2 DEF resolved, Stage, listen, LifeType
  <2>3. QED
    BY <1>0, <2>1, <2>2 DEF LifecycleInv, LifecycleTypeOK, DoorInv, ExitInv, Running
<1>3. CASE migrated
  <2>1. life' \in LifeType
    BY <1>0, <1>3 DEF migrated, Stage, LifeType, BootStages
  <2>2. QED
    BY <1>0, <1>3, <2>1 DEF migrated, Stage, LifecycleInv, LifecycleTypeOK, LifeType, DoorInv,
                           ExitInv, Running
<1>4. CASE main
  <2>1. CASE life.stopping
    <3>1. life.boot = "key" /\ life' = [life EXCEPT !.boot = "done"] /\ UNCHANGED <<kind, work, clients>>
      BY <1>4, <2>1 DEF main, Stage
    <3>2. QED
      BY <1>0, <3>1 DEF LifecycleInv, LifecycleTypeOK, LifeType, BootStages, DoorInv, ExitInv
  <2>2. CASE ~life.stopping
    <3>1. /\ life.boot = "key" /\ UNCHANGED <<kind, clients>>
          /\ life' = listen([every(life) EXCEPT !.boot = "done", !.pump = TRUE])
          /\ work' = [work EXCEPT !.tasks = 2, !.drains = 1]
      BY <1>4, <2>2 DEF main, Stage
    <3>2. every(life) = [life EXCEPT !.timers = TRUE]
      BY <2>2 DEF every
    <3>3. life' = [[[life EXCEPT !.timers = TRUE] EXCEPT !.boot = "done", !.pump = TRUE] EXCEPT !.http = "open"]
      BY <1>0, <2>2, <3>1, <3>2 DEF listen, LifeType
    <3>4. /\ life' \in LifeType /\ life'.boot = "done" /\ life'.stopping = life.stopping
          /\ life'.code = life.code /\ life'.phase = life.phase /\ life'.exits = life.exits
          /\ life'.hurt = life.hurt /\ life'.http = "open"
      BY <1>0, <3>3 DEF LifeType, BootStages
    <3>5. work' \in WorkType
      BY <1>0, <3>1 DEF WorkType
    <3>6. life.phase = "none" /\ clients = "open"
      BY <1>0, <2>2 DEF DoorInv, ExitInv, LifecycleTypeOK
    <3>7. QED
      BY <1>0, <2>2, <3>1, <3>4, <3>5, <3>6 DEF LifecycleInv, LifecycleTypeOK, DoorInv, ExitInv
  <2>3. QED
    BY <2>1, <2>2
<1>5. CASE startupFails
  <2> DEFINE m == [life EXCEPT !.boot = "failed", !.code = 1, !.hurt = TRUE]
  <2>1. /\ life.boot \in {"resolve", "migrate", "key"} /\ Running /\ life' = stop(m, 1)
        /\ UNCHANGED <<kind, work, clients>>
    BY <1>5 DEF startupFails, Stage
  <2>2. /\ m \in LifeType /\ m.code = 1 /\ m.hurt = TRUE /\ m.boot = "failed"
        /\ m.stopping = life.stopping /\ m.http = life.http /\ m.phase = life.phase
        /\ m.timers = life.timers /\ m.pump = life.pump /\ m.exits = life.exits
    BY <1>0 DEF LifeType, BootStages
  <2> HIDE DEF m
  <2>3. QED
    BY <2>1, <2>2, StopKeeps
<1>6. CASE request
  BY <1>0, <1>6 DEF request, begins, Running, LifecycleInv, LifecycleTypeOK, WorkType, DoorInv, ExitInv, WaitedOut
<1>d. CASE disconnect
  <2>1. /\ work' \in WorkType /\ work'.tasks = work.tasks /\ work'.drains = work.drains
        /\ work.requests # 0 /\ Running /\ UNCHANGED <<kind, life, clients>>
    <3>1. work.requests \in Nat \ {0} /\ work.orphans \in Nat /\ work.requests - 1 \in Nat /\ work.orphans + 1 \in Nat
      BY <1>0, <1>d DEF disconnect, WorkType
    <3>2. work' = [work EXCEPT !.requests = work.requests - 1, !.orphans = work.orphans + 1]
          /\ Running /\ UNCHANGED <<kind, life, clients>>
      BY <1>d DEF disconnect
    <3>3. QED
      BY <1>0, <3>1, <3>2 DEF WorkType
  <2>2. QED
    BY <1>0, <2>1 DEF Running, LifecycleInv, LifecycleTypeOK, DoorInv, ExitInv, WaitedOut
<1>7. CASE tick
  <2>1. ~life.stopping /\ life.phase = "none" /\ clients = "open"
    BY <1>0, <1>7 DEF tick, DoorInv, ExitInv, LifecycleTypeOK
  <2>2. /\ work' \in WorkType /\ work'.requests = work.requests
        /\ UNCHANGED <<kind, life, clients>>
    BY <1>0, <1>7 DEF tick, begins, WorkType
  <2>3. QED
    BY <1>0, <2>1, <2>2 DEF LifecycleInv, LifecycleTypeOK, DoorInv, ExitInv, WaitedOut, WorkType
<1>8. CASE requestEventDrain
  <2>1. ~life.stopping /\ life.phase = "none" /\ clients = "open"
    BY <1>0, <1>8 DEF requestEventDrain, DoorInv, ExitInv, LifecycleTypeOK
  <2>2. /\ work' \in WorkType /\ work'.requests = work.requests
        /\ UNCHANGED <<kind, life, clients>>
    BY <1>0, <1>8 DEF requestEventDrain, begins, WorkType
  <2>3. QED
    BY <1>0, <2>1, <2>2 DEF LifecycleInv, LifecycleTypeOK, DoorInv, ExitInv, WaitedOut, WorkType
<1>9. CASE settles
  <2>1. PICK f \in {"requests", "orphans", "tasks", "drains"} : ends(f)
    BY <1>9 DEF settles
  <2>2. /\ work' \in WorkType
        /\ work.requests = 0 => work'.requests = 0
        /\ work.tasks = 0 => work'.tasks = 0
        /\ work.drains = 0 => work'.drains = 0
    BY <1>0, <2>1 DEF ends, WorkType
  <2>3. QED
    BY <1>0, <2>1, <2>2 DEF ends, Running, LifecycleInv, LifecycleTypeOK, WorkType, DoorInv, ExitInv, WaitedOut
<1>10. CASE signal
  BY <1>0, <1>10, StopKeeps DEF signal, ExitInv
<1>11. CASE serverError
  <2> DEFINE m == [life EXCEPT !.hurt = TRUE]
  <2>1. Running /\ life.http \in {"open", "closing"} /\ life' = stop(m, 1) /\ UNCHANGED <<kind, work, clients>>
    BY <1>11 DEF serverError
  <2>2. /\ m \in LifeType /\ m.code = life.code /\ m.hurt = TRUE /\ m.boot = life.boot
        /\ m.stopping = life.stopping /\ m.http = life.http /\ m.phase = life.phase
        /\ m.timers = life.timers /\ m.pump = life.pump /\ m.exits = life.exits /\ life.code \in {0, 1}
    BY <1>0 DEF LifeType
  <2> HIDE DEF m
  <2>3. QED
    BY <2>1, <2>2, StopKeeps
<1>12. CASE closeHttp
  BY <1>0, <1>12 DEF closeHttp, LifecycleInv, LifecycleTypeOK, LifeType, DoorInv, ExitInv, Running
<1>13. CASE finish
  BY <1>0, <1>13 DEF finish, quiet, LifecycleInv, LifecycleTypeOK, LifeType, Phases, DoorInv, ExitInv
<1>14. CASE drained
  BY <1>0, <1>14 DEF drained, LifecycleInv, LifecycleTypeOK, LifeType, Phases, DoorInv, ExitInv
<1>15. CASE closed
  <2>1. /\ life.phase = "close" /\ life.exits = << >> /\ life.code \in {0, 1}
        /\ clients' = "closed" /\ life' = exit(life, life.code) /\ UNCHANGED <<kind, work>>
    BY <1>0, <1>15 DEF closed, ExitInv, LifeType
  <2>2. life' \in LifeType /\ life' = [life EXCEPT !.exits = <<life.code>>, !.phase = "over"]
    BY <1>0, <2>1, ExitFacts
  <2>3. WaitedOut
    BY <1>0, <2>1 DEF DoorInv, WaitedOut
  <2>4. QED
    BY <1>0, <2>1, <2>2, <2>3 DEF LifecycleInv, LifecycleTypeOK, LifeType, DoorInv, ExitInv, WaitedOut
<1>16. CASE cleanupFails
  <2> DEFINE m == [life EXCEPT !.code = 1]
  <2>1. /\ life.phase \in {"drain", "close"} /\ life.exits = << >>
        /\ clients' = "forced" /\ life' = exit(m, 1) /\ UNCHANGED <<kind, work>>
    BY <1>0, <1>16 DEF cleanupFails, ExitInv
  <2>2. m \in LifeType /\ m.exits = << >>
    BY <1>0, <2>1 DEF LifeType
  <2>3. life' \in LifeType /\ life' = [m EXCEPT !.exits = <<1>>, !.phase = "over"]
    BY <2>1, <2>2, ExitFacts
  <2>4. QED
    BY <1>0, <2>1, <2>3 DEF LifecycleInv, LifecycleTypeOK, LifeType, DoorInv, ExitInv
<1>17. CASE deadline
  <2>1. /\ life.phase \in {"http", "drain", "close"} /\ life.exits = << >>
        /\ clients' = "forced" /\ life' = exit(life, 1) /\ UNCHANGED <<kind, work>>
    BY <1>0, <1>17 DEF deadline, ExitInv
  <2>2. life' \in LifeType /\ life' = [life EXCEPT !.exits = <<1>>, !.phase = "over"]
    BY <1>0, <2>1, ExitFacts
  <2>3. QED
    BY <1>0, <2>1, <2>2 DEF LifecycleInv, LifecycleTypeOK, LifeType, DoorInv, ExitInv
<1>18. CASE UNCHANGED lifecycleVars
  BY <1>18 DEF lifecycleVars, LifecycleInv, LifecycleTypeOK, DoorInv, ExitInv, WaitedOut
<1>19. QED
  BY <1>1, <1>2, <1>3, <1>4, <1>5, <1>6, <1>7, <1>8, <1>9, <1>10, <1>11, <1>12, <1>13, <1>14,
     <1>15, <1>16, <1>17, <1>18, <1>d DEF LifecycleNext

(* The clients of a process are closed under nobody who is waited for (a   *)
(* handler whose client hung up is not), and exit code 0 means a complete  *)
(* shutdown after which nothing had failed, in whatever order signals,     *)
(* failures, hang-ups, the startup and the deadline come                   *)
(* (ServiceLifecycle).                                                     *)
THEOREM AlwaysClosedUnderNobody == LifecycleSpec => []ClosedUnderNobody
<1>1. LifecycleInv => ClosedUnderNobody
  <2> SUFFICES ASSUME LifecycleInv PROVE ClosedUnderNobody
    OBVIOUS
  <2>1. clients = "closing" => WaitedOut /\ life.boot \in Settled
    BY DEF LifecycleInv, DoorInv, ExitInv, WaitedOut
  <2>2. ASSUME WaitedOut, NEW f \in DOMAIN work, work[f] > 0 PROVE f = "orphans"
    <3>1. f \in {"requests", "orphans", "tasks", "drains"}
      BY DEF LifecycleInv, LifecycleTypeOK, WorkType
    <3> QED BY <2>2, <3>1 DEF WaitedOut
  <2>3. QED
    BY <2>1, <2>2 DEF LifecycleInv, ExitInv, ClosedUnderNobody
<1>2. (\E k \in {"sso", "portal"} : LifecycleInit(k)) => LifecycleInv
  BY LifecycleStart
<1>3. QED
  BY <1>1, <1>2, LifecycleStep, PTL DEF LifecycleSpec

-----------------------------------------------------------------------------
(* The portal's client key.  A key that is not yet in a cached set is      *)
(* compared with the time until it may sign.                               *)

SetType == [keys : SUBSET Nat, age : Nat]
SentType == [key : Nat, left : 0..AssertionTtl]
WorkerType ==
    [op : {"none", "schedule", "reconcile"},
     pc : {"idle", "start", "stage", "arm", "activate", "done", "failed"},
     written : BOOLEAN, wait : Unarmed..Propagation]
AskType ==
    [state : {"none", "joined", "waiting", "answered"}, cur : Nat, pending : BOOLEAN,
     shared : BOOLEAN]

CacheTypeOK ==
    /\ keyEdge \in SetType /\ flight \in SetType /\ sso \in SetType /\ sent \in SentType
    /\ keyEdge # Never => keyEdge.age < EdgeTtl
    /\ flight # Never => flight.age <= Transport

FileInv == file \in KeyFile /\ WrittenBefore(file)

WorkerInv ==
    /\ worker \in WorkerType
    /\ worker.written => worker.pc \in {"stage", "arm", "activate"}
    /\ worker.pc = "stage" => file.pend = NoKey
    /\ worker.pc = "stage" /\ worker.written => ~Full(file) /\ Newest(file) < MaxKey
    /\ worker.pc = "arm" => file.pend # NoKey /\ file.wait = Unarmed
    /\ worker.pc = "arm" /\ worker.written => worker.wait >= 0
    /\ worker.pc = "activate" => file.pend # NoKey /\ file.wait = 0

\* A saved set that the resolver answers from without a fetch, known key or not.
Trusted == sso.age < Cooling /\ sso.age < FreshFor

\* Nobody refuses k.
KnownEverywhere(k) ==
    /\ keyEdge # Never => k \in keyEdge.keys
    /\ flight # Never => k \in flight.keys
    /\ Trusted => k \in sso.keys

\* Nobody will refuse k in w ticks from now: a set without it has gone by then.
KnownIn(k, w) ==
    /\ keyEdge # Never /\ k \notin keyEdge.keys
         => w >= EdgeTtl - 1 - keyEdge.age + Transport + Cooling
    /\ flight # Never /\ k \notin flight.keys => w >= Transport - flight.age + Cooling
    /\ Trusted /\ k \notin sso.keys => w >= Cooling - sso.age

\* An assertion under way names a key that stays published longer than it lives.
StillPublished ==
    sent.key # NoKey =>
        \/ sent.key = file.cur
        \/ sent.key \in DOMAIN file.retired /\ file.retired[sent.key] > sent.left

ReachInv ==
    /\ KnownEverywhere(file.cur)
    /\ sent.key # NoKey => KnownEverywhere(sent.key)
    /\ file.pend # NoKey /\ file.wait # Unarmed => KnownIn(file.pend, file.wait)
    /\ worker.pc = "arm" /\ worker.written => KnownIn(file.pend, worker.wait)

Rotated == file.pend # NoKey \/ ask.cur < file.cur

AskInv ==
    /\ ask \in AskType
    /\ tracked \in BOOLEAN
    /\ tracked => worker.op \in {"schedule", "reconcile"}
    /\ ask.state # "none" => ask.cur <= file.cur
    /\ ask.state \in {"waiting", "joined"} => tracked
    /\ ask.state # "none" /\ ask.pending => Rotated
    /\ ask.state = "waiting" => worker.op = "schedule"
    /\ ask.state = "waiting" => Rotated \/ worker.pc \in {"start", "stage", "failed"}
    /\ ask.state = "joined" /\ ~ask.shared => worker.op = "reconcile"
    /\ ask.state = "answered" /\ ~ask.shared => Rotated

RotationInv ==
    CacheTypeOK /\ FileInv /\ WorkerInv /\ StillPublished /\ ReachInv /\ AskInv /\ ~refused

(* What the writer's operators make of a sound file.                       *)

LEMMA PeriodsAreNat ==
    /\ MaxKey \in Nat /\ MaxRetired \in Nat /\ Propagation \in Nat /\ Retention \in Nat
    /\ EdgeTtl \in Nat /\ Transport \in Nat /\ FreshFor \in Nat /\ Cooling \in Nat
    /\ AssertionTtl \in Nat /\ EdgeTtl > 0 /\ Cooling > 0
    /\ EdgeTtl - 1 + Transport + Cooling <= Propagation /\ AssertionTtl < Retention
BY PortalKeyAssumption

LEMMA KeyFileFacts ==
    ASSUME NEW f \in KeyFile
    PROVE  /\ f.cur \in 1..MaxKey /\ f.pend \in 0..MaxKey /\ f.wait \in Unarmed..Propagation
           /\ f.old \in BOOLEAN
           /\ DOMAIN f.retired \subseteq 1..MaxKey
           /\ f.retired \in [DOMAIN f.retired -> 0..Retention]
           /\ IsFiniteSet(DOMAIN f.retired)
<1>1. /\ f.cur \in 1..MaxKey /\ f.pend \in 0..MaxKey /\ f.wait \in Unarmed..Propagation
      /\ f.old \in BOOLEAN
      /\ f.retired \in UNION {[S -> 0..Retention] : S \in SUBSET (1..MaxKey)}
  BY DEF KeyFile
<1>2. PICK S \in SUBSET (1..MaxKey) : f.retired \in [S -> 0..Retention]
  BY <1>1
<1>3. DOMAIN f.retired = S
  BY <1>2
<1>4. IsFiniteSet(1..MaxKey)
  BY PeriodsAreNat, FS_Interval
<1>5. IsFiniteSet(S)
  BY <1>2, <1>4, FS_Subset
<1>6. QED
  BY <1>1, <1>2, <1>3, <1>5

\* A function whose domain are key numbers is one of a file's.
LEMMA RetiredType ==
    ASSUME NEW S \in SUBSET (1..MaxKey), NEW g \in [S -> 0..Retention]
    PROVE  g \in UNION {[R -> 0..Retention] : R \in SUBSET (1..MaxKey)}
OBVIOUS

LEMMA UnexpiredFacts ==
    ASSUME NEW f \in KeyFile
    PROVE  /\ DOMAIN unexpired(f) = {k \in DOMAIN f.retired : f.retired[k] > 0}
           /\ DOMAIN unexpired(f) \subseteq DOMAIN f.retired
           /\ unexpired(f) \in [DOMAIN unexpired(f) -> 0..Retention]
           /\ \A k \in DOMAIN unexpired(f) : unexpired(f)[k] = f.retired[k]
           /\ IsFiniteSet(DOMAIN unexpired(f))
           /\ Cardinality(DOMAIN unexpired(f)) \in Nat
<1> DEFINE keep == {k \in DOMAIN f.retired : f.retired[k] > 0}
<1>1. unexpired(f) = [k \in keep |-> f.retired[k]]
  BY DEF unexpired
<1>2. keep \subseteq DOMAIN f.retired
  OBVIOUS
<1>3. IsFiniteSet(keep)
  BY <1>2, KeyFileFacts, FS_Subset
<1>4. f.retired \in [DOMAIN f.retired -> 0..Retention]
  BY KeyFileFacts
<1>5. Cardinality(keep) \in Nat
  BY <1>3, FS_CardinalityType
<1>6. QED
  BY <1>1, <1>2, <1>3, <1>4, <1>5

LEMMA LongLived ==
    ASSUME NEW f \in KeyFile, NEW k \in DOMAIN f.retired, NEW n \in Nat, f.retired[k] > n
    PROVE  k \in DOMAIN unexpired(f)
<1>1. f.retired[k] \in Nat
  BY KeyFileFacts, PeriodsAreNat
<1>2. f.retired[k] > 0
  BY <1>1
<1>3. DOMAIN unexpired(f) = {j \in DOMAIN f.retired : f.retired[j] > 0}
  BY UnexpiredFacts
<1>4. QED
  BY <1>2, <1>3

LEMMA RoomLeft ==
    ASSUME NEW f \in KeyFile, ~Full(f)
    PROVE  /\ Cardinality(DOMAIN unexpired(f)) \in Nat
           /\ Cardinality(DOMAIN unexpired(f)) < MaxRetired
<1>1. Cardinality(DOMAIN unexpired(f)) \in Nat
  BY UnexpiredFacts
<1>2. ~(Cardinality(DOMAIN unexpired(f)) >= MaxRetired)
  BY DEF Full
<1>3. MaxRetired \in Nat
  BY PeriodsAreNat
<1>4. QED
  BY <1>1, <1>2, <1>3

LEMMA NewestIs ==
    ASSUME NEW f \in KeyFile, f.pend # NoKey => f.cur < f.pend
    PROVE  Newest(f) = IF f.pend = NoKey THEN f.cur ELSE f.pend
<1>1. f.cur \in 1..MaxKey /\ f.pend \in 0..MaxKey
  BY KeyFileFacts
<1> DEFINE top == IF f.pend = NoKey THEN f.cur ELSE f.pend
<1>2. top \in {f.cur, f.pend} /\ top >= f.cur /\ top >= f.pend
  BY <1>1, PeriodsAreNat DEF NoKey
<1>3. ASSUME NEW k \in {f.cur, f.pend}, k >= f.cur, k >= f.pend PROVE k = top
  BY <1>1, <1>3, PeriodsAreNat DEF NoKey
<1>4. QED
  BY <1>2, <1>3 DEF Newest

\* After a stage the new key is pending, unarmed.
LEMMA StagedSound ==
    ASSUME NEW f \in KeyFile, WrittenBefore(f), f.pend = NoKey, ~Full(f), Newest(f) < MaxKey
    PROVE  /\ Staged(f) \in KeyFile /\ WrittenBefore(Staged(f))
           /\ Staged(f).cur = f.cur /\ Staged(f).pend = f.cur + 1
           /\ Staged(f).wait = Unarmed /\ Staged(f).retired = unexpired(f)
<1>1. /\ f.cur \in 1..MaxKey /\ f.wait = Unarmed /\ \A k \in DOMAIN f.retired : k < f.cur
      /\ DOMAIN f.retired \subseteq 1..MaxKey
  BY KeyFileFacts DEF WrittenBefore, decode
<1>2. Newest(f) = f.cur
  BY NewestIs
<1> DEFINE g == Staged(f)
<1>3. g = [f EXCEPT !.pend = f.cur + 1, !.retired = unexpired(f), !.old = FALSE]
  BY <1>2 DEF Staged
<1>4. unexpired(f) \in UNION {[R -> 0..Retention] : R \in SUBSET (1..MaxKey)}
  BY <1>1, UnexpiredFacts, RetiredType
<1>5. f.cur + 1 \in 0..MaxKey /\ f.cur + 1 # NoKey
  BY <1>1, <1>2, PeriodsAreNat DEF NoKey
<1>6. g \in KeyFile
  BY <1>3, <1>4, <1>5 DEF KeyFile
<1>7. g.cur = f.cur /\ g.pend = f.cur + 1 /\ g.wait = f.wait /\ g.retired = unexpired(f)
  BY <1>3 DEF KeyFile
<1>8. DOMAIN unexpired(g) \subseteq DOMAIN unexpired(f)
  BY <1>6, <1>7, UnexpiredFacts
<1>9. Cardinality(DOMAIN unexpired(f)) < MaxRetired /\ Cardinality(DOMAIN unexpired(f)) \in Nat
  BY RoomLeft
<1>10. ~Full(g)
  <2> HIDE DEF g
  <2>1. /\ IsFiniteSet(DOMAIN unexpired(f))
        /\ Cardinality(DOMAIN unexpired(g)) <= Cardinality(DOMAIN unexpired(f))
        /\ Cardinality(DOMAIN unexpired(g)) \in Nat
    BY <1>6, <1>8, UnexpiredFacts, FS_Subset
  <2>2. QED
    BY <1>9, <2>1, PeriodsAreNat DEF Full
<1>11. \A k \in DOMAIN g.retired : k < f.cur /\ k \in 1..MaxKey
  BY <1>1, <1>7, UnexpiredFacts
<1>12. WrittenBefore(g)
  <2> HIDE DEF g
  <2>1. f.cur < f.cur + 1 /\ f.cur + 1 # f.cur /\ f.cur \notin DOMAIN g.retired
        /\ f.cur + 1 \notin DOMAIN g.retired
    BY <1>1, <1>11, PeriodsAreNat
  <2>2. Cardinality(DOMAIN g.retired) <= MaxRetired
    BY <1>7, <1>9, PeriodsAreNat
  <2>3. QED
    BY <1>5, <1>7, <1>10, <1>11, <2>1, <2>2 DEF WrittenBefore, decode
<1>13. QED
  BY <1>1, <1>6, <1>7, <1>12

LEMMA ArmedSound ==
    ASSUME NEW f \in KeyFile, WrittenBefore(f), f.pend # NoKey, NEW w \in 0..Propagation
    PROVE  /\ Armed(f, w) \in KeyFile /\ WrittenBefore(Armed(f, w))
           /\ Armed(f, w).cur = f.cur /\ Armed(f, w).pend = f.pend
           /\ Armed(f, w).wait = w /\ Armed(f, w).retired = f.retired
<1> DEFINE g == Armed(f, w)
<1>1. w \in Unarmed..Propagation
  BY PeriodsAreNat DEF Unarmed
<1>2. g \in KeyFile
  BY <1>1 DEF KeyFile, Armed
<1>3. g.cur = f.cur /\ g.pend = f.pend /\ g.wait = w /\ g.retired = f.retired
  BY DEF KeyFile, Armed
<1> HIDE DEF g
<1>4. unexpired(g) = unexpired(f)
  BY <1>3 DEF unexpired
<1>5. QED
  BY <1>2, <1>3, <1>4 DEF WrittenBefore, decode, Full, g

\* The old signer joins the retired keys, which have room for it.
LEMMA ActivatedSound ==
    ASSUME NEW f \in KeyFile, WrittenBefore(f), f.pend # NoKey
    PROVE  /\ Activated(f) \in KeyFile /\ WrittenBefore(Activated(f))
           /\ Activated(f).cur = f.pend /\ Activated(f).pend = NoKey
           /\ Activated(f).wait = Unarmed
           /\ DOMAIN Activated(f).retired = DOMAIN unexpired(f) \cup {f.cur}
           /\ Activated(f).retired[f.cur] = Retention
           /\ \A k \in DOMAIN unexpired(f) : k # f.cur /\ Activated(f).retired[k] = f.retired[k]
<1> DEFINE D == DOMAIN unexpired(f) \cup {f.cur}
<1> DEFINE r == [k \in D |-> IF k = f.cur THEN Retention ELSE f.retired[k]]
<1> DEFINE g == Activated(f)
<1>1. /\ f.cur \in 1..MaxKey /\ f.pend \in 1..MaxKey /\ f.cur < f.pend
      /\ \A k \in DOMAIN f.retired : k < f.cur /\ k \in 1..MaxKey
      /\ ~Full(f)
  BY KeyFileFacts, PeriodsAreNat DEF WrittenBefore, NoKey
<1>2. D \in SUBSET (1..MaxKey) /\ \A k \in DOMAIN unexpired(f) : k # f.cur /\ k < f.cur
  <2>1. DOMAIN unexpired(f) \subseteq DOMAIN f.retired
    BY UnexpiredFacts
  <2>2. \A k \in DOMAIN unexpired(f) : k < f.cur /\ k \in 1..MaxKey
    BY <1>1, <2>1
  <2>3. \A k \in DOMAIN unexpired(f) : k # f.cur
    BY <1>1, <2>2, PeriodsAreNat
  <2>4. QED
    BY <1>1, <2>2, <2>3
<1>3. r \in [D -> 0..Retention]
  <2>1. \A k \in DOMAIN unexpired(f) : f.retired[k] \in 0..Retention
    BY UnexpiredFacts
  <2>2. Retention \in 0..Retention
    BY PeriodsAreNat
  <2>3. QED
    BY <2>1, <2>2
<1>4. r \in UNION {[R -> 0..Retention] : R \in SUBSET (1..MaxKey)}
  <2> HIDE DEF D, r
  <2> QED
    BY <1>2, <1>3, RetiredType
<1>5. g = [f EXCEPT !.cur = f.pend, !.pend = NoKey, !.wait = Unarmed, !.old = FALSE, !.retired = r]
  BY DEF Activated
<1>6. NoKey \in 0..MaxKey /\ Unarmed \in Unarmed..Propagation
  BY PeriodsAreNat DEF NoKey, Unarmed
<1>7. DOMAIN r = D /\ r[f.cur] = Retention /\ \A k \in DOMAIN unexpired(f) : r[k] = f.retired[k]
  BY <1>2
<1> HIDE DEF r, g
<1>8. g \in KeyFile
  BY <1>1, <1>4, <1>5, <1>6 DEF KeyFile
<1>9. g.cur = f.pend /\ g.pend = NoKey /\ g.wait = Unarmed /\ g.retired = r
  BY <1>5 DEF KeyFile
<1>10. Cardinality(D) <= MaxRetired
  <2>1. /\ IsFiniteSet(DOMAIN unexpired(f)) /\ Cardinality(DOMAIN unexpired(f)) \in Nat
        /\ Cardinality(DOMAIN unexpired(f)) < MaxRetired
    BY <1>1, UnexpiredFacts, RoomLeft
  <2>2. f.cur \notin DOMAIN unexpired(f)
    BY <1>2
  <2>3. Cardinality(D) = Cardinality(DOMAIN unexpired(f)) + 1
    BY <2>1, <2>2, FS_AddElement
  <2>4. QED
    BY <2>1, <2>3, PeriodsAreNat
<1>11. \A k \in D : k < f.pend /\ k # f.pend /\ k # NoKey
  BY <1>1, <1>2, PeriodsAreNat DEF NoKey
<1>12. f.pend # NoKey /\ f.pend \notin D /\ NoKey \notin D
  BY <1>1, <1>11 DEF NoKey
<1>13. WrittenBefore(g)
  <2> HIDE DEF D
  <2> QED
    BY <1>7, <1>9, <1>10, <1>11, <1>12 DEF WrittenBefore, decode
<1>14. QED
  BY <1>2, <1>7, <1>8, <1>9, <1>13 DEF g

\* The phase the writer goes on with fits the file.
LEMMA NextPhaseFits ==
    ASSUME NEW op, NEW f \in KeyFile
    PROVE  /\ NextPhase(op, f) \in {"stage", "arm", "activate", "done"}
           /\ NextPhase(op, f) = "stage" => op = "schedule" /\ f.pend = NoKey
           /\ NextPhase(op, f) = "arm" => f.pend # NoKey /\ f.wait = Unarmed
           /\ NextPhase(op, f) = "activate" => f.pend # NoKey /\ f.wait = 0
           /\ op = "schedule" /\ NextPhase(op, f) # "stage" => f.pend # NoKey
<1>1. Unarmed # 0
  BY DEF Unarmed
<1>2. CASE op = "schedule" /\ f.pend = NoKey
  BY <1>2 DEF NextPhase
<1>3. CASE f.pend # NoKey /\ f.wait = Unarmed
  BY <1>1, <1>3 DEF NextPhase
<1>4. CASE f.pend # NoKey /\ f.wait = 0
  BY <1>1, <1>4 DEF NextPhase
<1>5. CASE /\ ~(op = "schedule" /\ f.pend = NoKey) /\ ~(f.pend # NoKey /\ f.wait = Unarmed)
           /\ ~(f.pend # NoKey /\ f.wait = 0)
  BY <1>5 DEF NextPhase
<1>6. QED
  BY <1>2, <1>3, <1>4, <1>5

(* Who knows which key.                                                    *)

LEMMA DueIsKnown ==
    ASSUME CacheTypeOK, NEW k, KnownIn(k, 0)
    PROVE  KnownEverywhere(k)
<1>1. keyEdge # Never /\ k \notin keyEdge.keys => FALSE
  BY PeriodsAreNat DEF CacheTypeOK, SetType, KnownIn
<1>2. flight # Never /\ k \notin flight.keys => FALSE
  BY PeriodsAreNat DEF CacheTypeOK, SetType, KnownIn
<1>3. Trusted /\ k \notin sso.keys => FALSE
  BY PeriodsAreNat DEF CacheTypeOK, SetType, KnownIn, Trusted
<1>4. QED
  BY <1>1, <1>2, <1>3 DEF KnownEverywhere

LEMMA KnownStaysKnown ==
    ASSUME NEW k, NEW w, KnownEverywhere(k)
    PROVE  KnownIn(k, w)
BY DEF KnownEverywhere, KnownIn

\* Propagation is long enough for any set there may be.
LEMMA KnownAfterPropagation ==
    ASSUME CacheTypeOK, NEW k
    PROVE  KnownIn(k, Propagation)
<1>1. keyEdge # Never => Propagation >= EdgeTtl - 1 - keyEdge.age + Transport + Cooling
  BY PeriodsAreNat DEF CacheTypeOK, SetType
<1>2. flight # Never => Propagation >= Transport - flight.age + Cooling
  BY PeriodsAreNat DEF CacheTypeOK, SetType
<1>3. Trusted => Propagation >= Cooling - sso.age
  BY PeriodsAreNat DEF CacheTypeOK, SetType
<1>4. QED
  BY <1>1, <1>2, <1>3 DEF KnownIn

\* What a file publishes.
LEMMA PublishedKeys ==
    ASSUME CacheTypeOK, FileInv, StillPublished
    PROVE  /\ projection(file) \in SUBSET Nat
           /\ file.cur \in projection(file)
           /\ file.pend # NoKey => file.pend \in projection(file)
           /\ sent.key # NoKey => sent.key \in projection(file)
<1>1. file.cur \in 1..MaxKey /\ file.pend \in 0..MaxKey /\ DOMAIN file.retired \subseteq 1..MaxKey
      /\ file.retired \in [DOMAIN file.retired -> 0..Retention]
  BY KeyFileFacts DEF FileInv
<1>2. file.cur # NoKey
  BY <1>1, PeriodsAreNat DEF NoKey
<1>3. projection(file) \in SUBSET Nat
  BY <1>1, PeriodsAreNat DEF projection
<1>4. sent.key # NoKey => sent.key \in projection(file)
  <2> SUFFICES ASSUME sent.key # NoKey PROVE sent.key \in projection(file)
    OBVIOUS
  <2>1. CASE sent.key = file.cur
    BY <1>2, <2>1 DEF projection
  <2>2. CASE sent.key \in DOMAIN file.retired /\ file.retired[sent.key] > sent.left
    <3>1. file.retired[sent.key] > 0
      BY <1>1, <2>2, PeriodsAreNat DEF CacheTypeOK, SentType
    <3>2. QED
      BY <2>2, <3>1 DEF projection
  <2>3. QED
    BY <2>1, <2>2 DEF StillPublished
<1>5. QED
  BY <1>2, <1>3, <1>4 DEF projection

(* Steps of the writer and of the portal leave file and caches alone.      *)
LEMMA WriterMoves ==
    ASSUME RotationInv, UNCHANGED <<file, cacheVars>>, WorkerInv', AskInv',
           worker'.pc = "arm" /\ worker'.written => KnownIn(file.pend, worker'.wait)
    PROVE  RotationInv'
<1>1. /\ file' = file /\ keyEdge' = keyEdge /\ flight' = flight /\ sso' = sso
      /\ sent' = sent /\ refused' = refused
  BY DEF cacheVars
<1>2. CacheTypeOK' /\ FileInv' /\ StillPublished' /\ ~refused'
  BY <1>1 DEF RotationInv, CacheTypeOK, FileInv, WrittenBefore, StillPublished
<1>3. ReachInv'
  BY <1>1 DEF RotationInv, ReachInv, KnownEverywhere, KnownIn, Trusted
<1>4. QED
  BY <1>2, <1>3 DEF RotationInv

(* Steps of the caches and of the resolver leave the writer alone.         *)
LEMMA CachesMove ==
    ASSUME RotationInv, UNCHANGED <<file, writerVars>>, CacheTypeOK', ~refused',
           \A k \in projection(file) : KnownEverywhere(k) => KnownEverywhere(k)',
           \A k \in projection(file), w \in Int : KnownIn(k, w) => KnownIn(k, w)',
           sent' = sent \/ sent'.key = NoKey
    PROVE  RotationInv'
<1>1. /\ file' = file /\ worker' = worker /\ tracked' = tracked /\ ask' = ask
  BY DEF writerVars
<1>2. FileInv' /\ WorkerInv' /\ AskInv'
  BY <1>1 DEF RotationInv, FileInv, WrittenBefore, WorkerInv, AskInv, Rotated
<1>3. StillPublished'
  BY <1>1 DEF RotationInv, StillPublished
<1>4. ReachInv'
  <2>1. KnownEverywhere(file.cur)'
    BY <1>1, PublishedKeys DEF RotationInv, ReachInv, KnownEverywhere, Trusted
  <2>2. sent'.key # NoKey => KnownEverywhere(sent.key)'
    BY <1>1, PublishedKeys DEF RotationInv, ReachInv, KnownEverywhere, Trusted
  <2>3. file.pend # NoKey /\ file.wait # Unarmed => KnownIn(file.pend, file.wait)'
    <3>1. file.wait \in Int
      BY KeyFileFacts, PeriodsAreNat DEF RotationInv, FileInv, Unarmed
    <3>2. QED
      BY <1>1, <3>1, PublishedKeys DEF RotationInv, ReachInv, KnownIn, Trusted
  <2>4. worker.pc = "arm" /\ worker.written => KnownIn(file.pend, worker.wait)'
    <3>1. worker.wait \in Int /\ (worker.pc = "arm" => file.pend # NoKey)
      BY PeriodsAreNat DEF RotationInv, WorkerInv, WorkerType, Unarmed
    <3>2. QED
      BY <1>1, <3>1, PublishedKeys DEF RotationInv, ReachInv, KnownIn, Trusted
  <2>5. QED
    BY <1>1, <2>1, <2>2, <2>3, <2>4 DEF ReachInv
<1>5. QED
  BY <1>2, <1>3, <1>4 DEF RotationInv

LEMMA RotationStart ==
    ASSUME NEW f \in KeyFile, WrittenBefore(f), PortalKeyInit(f)
    PROVE  RotationInv
<1>1. /\ file = f /\ worker = IdleWorker /\ tracked = FALSE /\ ask = NoAsk /\ keyEdge = Never
      /\ flight = Never /\ sso = Never /\ sent = [key |-> NoKey, left |-> 0] /\ refused = FALSE
  BY DEF PortalKeyInit
<1>2. CacheTypeOK
  BY <1>1, PeriodsAreNat DEF CacheTypeOK, SetType, SentType, Never, NoKey
<1>3. WorkerInv
  BY <1>1, PeriodsAreNat DEF WorkerInv, WorkerType, IdleWorker, Unarmed
<1>4. AskInv
  BY <1>1 DEF AskInv, AskType, NoAsk, NoKey
<1>5. ~Trusted
  BY <1>1, PeriodsAreNat DEF Trusted, Never
<1>6. ReachInv
  BY <1>1, <1>5 DEF ReachInv, KnownEverywhere, KnownIn, IdleWorker
<1>7. QED
  BY <1>1, <1>2, <1>3, <1>4, <1>6 DEF RotationInv, FileInv, StillPublished

LEMMA AskWaits ==
    ASSUME AskInv, file' = file, ask' = ask, tracked' = tracked, worker'.op = worker.op,
           ask.state = "waiting" => Rotated \/ worker'.pc \in {"start", "stage", "failed"}
    PROVE  AskInv'
BY DEF AskInv, Rotated

LEMMA NobodyAsks == NoAsk \in AskType /\ NoAsk.state = "none"
BY DEF NoAsk, AskType, NoKey

LEMMA EnterKeeps == RotationInv /\ Enter => RotationInv'
<1> SUFFICES ASSUME RotationInv, Enter PROVE RotationInv'
  OBVIOUS
<1>1. /\ worker.pc = "start" /\ UNCHANGED <<file, tracked, ask, cacheVars>>
      /\ worker' = [worker EXCEPT !.pc = IF decode(file) THEN NextPhase(worker.op, file) ELSE "failed"]
      /\ worker \in WorkerType /\ ~worker.written /\ decode(file) /\ file \in KeyFile
  BY DEF Enter, RotationInv, WorkerInv, FileInv, WrittenBefore
<1>2. worker' = [worker EXCEPT !.pc = NextPhase(worker.op, file)]
  BY <1>1
<1>3. NextPhase(worker.op, file) \in {"stage", "arm", "activate", "done"}
  BY <1>1, NextPhaseFits
<1>4. /\ worker' \in WorkerType /\ worker'.pc = NextPhase(worker.op, file) /\ ~worker'.written
      /\ worker'.op = worker.op
  BY <1>1, <1>2, <1>3 DEF WorkerType
<1>5. WorkerInv'
  BY <1>1, <1>4, NextPhaseFits DEF WorkerInv
<1>6. AskInv'
  <2>1. ask.state = "waiting" => worker.op = "schedule"
    BY DEF RotationInv, AskInv
  <2>2. ask.state = "waiting" => Rotated \/ worker'.pc \in {"start", "stage", "failed"}
    BY <1>1, <1>4, <2>1, NextPhaseFits DEF Rotated
  <2>3. QED
    BY <1>1, <1>4, <2>2, AskWaits DEF RotationInv
<1>7. QED
  BY <1>1, <1>4, <1>5, <1>6, WriterMoves

LEMMA WriteTempKeeps == RotationInv /\ WriteTemp => RotationInv'
<1> SUFFICES ASSUME RotationInv, WriteTemp PROVE RotationInv'
  OBVIOUS
<1>1. /\ worker.pc \in {"stage", "arm", "activate"} /\ ~worker.written
      /\ UNCHANGED <<file, tracked, ask, cacheVars>> /\ worker \in WorkerType
  BY DEF WriteTemp, RotationInv, WorkerInv
<1>2. CASE worker.pc = "stage" /\ Full(file)
  <2>1. worker' = [worker EXCEPT !.pc = "failed"]
    BY <1>2 DEF WriteTemp
  <2>2. worker' \in WorkerType /\ worker'.pc = "failed" /\ ~worker'.written /\ worker'.op = worker.op
    BY <1>1, <2>1 DEF WorkerType
  <2>3. WorkerInv'
    BY <2>2 DEF WorkerInv
  <2>4. AskInv'
    BY <1>1, <2>2, AskWaits DEF RotationInv
  <2>5. QED
    BY <1>1, <2>2, <2>3, <2>4, WriterMoves
<1>3. CASE ~(worker.pc = "stage" /\ Full(file))
  <2>1. /\ worker' = [worker EXCEPT !.written = TRUE, !.wait = Propagation]
        /\ worker.pc = "stage" => Newest(file) < MaxKey /\ ~Full(file)
    BY <1>3 DEF WriteTemp
  <2>2. /\ worker' \in WorkerType /\ worker'.pc = worker.pc /\ worker'.wait = Propagation
        /\ worker'.op = worker.op
    <3>1. Propagation \in Unarmed..Propagation
      BY PeriodsAreNat DEF Unarmed
    <3>2. QED
      BY <1>1, <2>1, <3>1 DEF WorkerType
  <2>3. WorkerInv'
    <3>1. Full(file)' = Full(file) /\ Newest(file)' = Newest(file)
      BY <1>1 DEF Full, unexpired, Newest
    <3>2. QED
      BY <1>1, <2>1, <2>2, <3>1, PeriodsAreNat DEF RotationInv, WorkerInv
  <2>4. AskInv'
    <3>1. ask.state = "waiting" => Rotated \/ worker.pc \in {"start", "stage", "failed"}
      BY DEF RotationInv, AskInv
    <3>2. QED
      BY <1>1, <2>2, <3>1, AskWaits DEF RotationInv
  <2>5. KnownIn(file.pend, worker'.wait)
    BY <2>2, KnownAfterPropagation DEF RotationInv
  <2>6. QED
    BY <1>1, <2>3, <2>4, <2>5, WriterMoves
<1>4. QED
  BY <1>2, <1>3

LEMMA KilledKeeps == RotationInv /\ Killed => RotationInv'
<1> SUFFICES ASSUME RotationInv, Killed PROVE RotationInv'
  OBVIOUS
<1>1. /\ worker' = [worker EXCEPT !.pc = "failed", !.written = FALSE] /\ worker \in WorkerType
      /\ UNCHANGED <<file, tracked, ask, cacheVars>>
  BY DEF Killed, RotationInv, WorkerInv
<1>2. worker' \in WorkerType /\ worker'.pc = "failed" /\ ~worker'.written /\ worker'.op = worker.op
  BY <1>1 DEF WorkerType
<1>3. WorkerInv'
  BY <1>2 DEF WorkerInv
<1>4. AskInv'
  BY <1>1, <1>2, AskWaits DEF RotationInv
<1>5. QED
  BY <1>1, <1>2, <1>3, <1>4, WriterMoves

\* A writer that has just been started.
LEMMA SpawnedWriter ==
    ASSUME NEW op \in {"schedule", "reconcile"}, Spawn(op)
    PROVE  WorkerInv' /\ worker'.pc = "start" /\ worker'.op = op /\ tracked'
<1>1. worker' = [op |-> op, pc |-> "start", written |-> FALSE, wait |-> Unarmed] /\ tracked' = TRUE
  BY DEF Spawn
<1>2. worker' \in WorkerType
  BY <1>1, PeriodsAreNat DEF WorkerType, Unarmed
<1>3. QED
  BY <1>1, <1>2 DEF WorkerInv

LEMMA ScheduleKeeps == RotationInv /\ scheduleClientKeyRotation => RotationInv'
<1> SUFFICES ASSUME RotationInv, scheduleClientKeyRotation PROVE RotationInv'
  OBVIOUS
<1>1. /\ ask.state = "none" /\ mutate("schedule") /\ UNCHANGED <<file, cacheVars>>
      /\ ask' = [state |-> IF tracked THEN "joined" ELSE "waiting", cur |-> file.cur,
                 pending |-> file.pend # NoKey, shared |-> tracked /\ worker.op = "schedule"]
  BY DEF scheduleClientKeyRotation
<1>2. file.cur \in Nat
  BY KeyFileFacts, PeriodsAreNat DEF RotationInv, FileInv
<1>3. /\ ask' \in AskType /\ ask'.cur = file.cur /\ file' = file
      /\ ask'.pending => file.pend # NoKey
      /\ ~ask'.shared => ~(tracked /\ worker.op = "schedule")
      /\ ask'.state = IF tracked THEN "joined" ELSE "waiting"
  <2>1. (file.pend # NoKey) \in BOOLEAN /\ (tracked /\ worker.op = "schedule") \in BOOLEAN
    OBVIOUS
  <2>2. QED
    BY <1>1, <1>2, <2>1 DEF AskType
<1>6. ask'.cur <= file'.cur /\ (ask'.pending => Rotated')
  BY <1>2, <1>3 DEF Rotated
<1>4. CASE tracked
  <2>1. UNCHANGED <<worker, tracked>> /\ ask'.state = "joined"
    BY <1>1, <1>4 DEF mutate
  <2>2. WorkerInv'
    BY <1>1, <2>1 DEF RotationInv, WorkerInv, Full, unexpired, Newest
  <2>4. worker.op # "schedule" => worker.op = "reconcile"
    BY <1>4 DEF RotationInv, AskInv
  <2>5. AskInv'
    <3>1. tracked' = tracked /\ worker' = worker /\ tracked = TRUE
      BY <1>4, <2>1 DEF RotationInv, AskInv
    <3>2. tracked' => worker'.op \in {"schedule", "reconcile"}
      BY <3>1 DEF RotationInv, AskInv
    <3>3. ~ask'.shared => worker'.op = "reconcile"
      BY <1>3, <2>4, <3>1
    <3>4. QED
      BY <1>3, <1>6, <2>1, <3>1, <3>2, <3>3 DEF AskInv
  <2>6. QED
    BY <1>1, <2>1, <2>2, <2>5, WriterMoves DEF RotationInv, ReachInv
<1>5. CASE ~tracked
  <2>1. Spawn("schedule") /\ ask'.state = "waiting"
    BY <1>1, <1>5 DEF mutate
  <2>2. WorkerInv' /\ worker'.pc = "start" /\ worker'.op = "schedule" /\ tracked' = TRUE
    BY <2>1, SpawnedWriter DEF Spawn
  <2>3. AskInv'
    BY <1>3, <1>6, <2>1, <2>2 DEF AskInv
  <2>4. QED
    BY <1>1, <2>2, <2>3, WriterMoves
<1>7. QED
  BY <1>4, <1>5

LEMMA StatusKeeps == RotationInv /\ getClientKeyStatus => RotationInv'
<1> SUFFICES ASSUME RotationInv, getClientKeyStatus PROVE RotationInv'
  OBVIOUS
<1>1. ~tracked /\ Spawn("reconcile") /\ UNCHANGED <<file, ask, cacheVars>>
  BY DEF getClientKeyStatus, mutate
<1>2. WorkerInv' /\ worker'.pc = "start" /\ worker'.op = "reconcile" /\ tracked' = TRUE
  BY <1>1, SpawnedWriter DEF Spawn
<1>3. AskInv'
  BY <1>1, <1>2 DEF RotationInv, AskInv, Rotated
<1>4. QED
  BY <1>1, <1>2, <1>3, WriterMoves

\* The writer has ended: whoever waited for it is answered, or runs it again.
LEMMA CloseKeeps == RotationInv /\ Close => RotationInv'
<1> SUFFICES ASSUME RotationInv, Close PROVE RotationInv'
  OBVIOUS
<1> DEFINE ok == worker.pc = "done"
<1> DEFINE again == ok /\ tracked /\ Rerun
<1>1. /\ worker.pc \in {"done", "failed"} /\ UNCHANGED <<file, cacheVars>>
      /\ AskInv /\ ask \in AskType /\ tracked \in BOOLEAN
  BY DEF Close, RotationInv, AskInv
<1>2. CASE again /\ ~sealed
  <2>1. Spawn("schedule") /\ ask' = [ask EXCEPT !.state = "waiting"]
    BY <1>2 DEF Close
  <2>2. WorkerInv' /\ worker'.pc = "start" /\ worker'.op = "schedule" /\ tracked' = TRUE
    BY <2>1, SpawnedWriter DEF Spawn
  <2>3. /\ ask' \in AskType /\ ask'.state = "waiting" /\ ask'.cur = ask.cur
        /\ ask'.pending = ask.pending
    BY <1>1, <2>1 DEF AskType
  <2>4. ask.state = "joined"
    BY <1>2 DEF Rerun
  <2>5. AskInv'
    BY <1>1, <2>2, <2>3, <2>4 DEF AskInv, Rotated
  <2>6. QED
    BY <1>1, <2>2, <2>5, WriterMoves
<1>3. CASE ~(again /\ ~sealed)
  <2>1. /\ worker' = IdleWorker /\ tracked' = FALSE
        /\ ask' = IF tracked /\ ask.state \in {"waiting", "joined"}
                  THEN IF ok /\ ~again THEN [ask EXCEPT !.state = "answered"] ELSE NoAsk
                  ELSE ask
    BY <1>3 DEF Close
  <2>2. WorkerInv' /\ worker'.pc = "idle"
    BY <2>1, PeriodsAreNat DEF WorkerInv, WorkerType, IdleWorker, Unarmed
  <2>3. AskInv'
    <3>1. CASE ask.state \in {"waiting", "joined"} /\ ok /\ ~again
      <4>1. tracked
        BY <1>1, <3>1 DEF AskInv
      <4>2. ask' = [ask EXCEPT !.state = "answered"]
        BY <2>1, <3>1, <4>1
      <4>3. /\ ask' \in AskType /\ ask'.state = "answered" /\ ask'.cur = ask.cur
            /\ ask'.pending = ask.pending /\ ask'.shared = ask.shared
        BY <1>1, <4>2 DEF AskType
      <4>4. ~ask.shared => Rotated
        <5>1. CASE ask.state = "waiting"
          BY <1>1, <3>1, <5>1 DEF AskInv
        <5>2. CASE ask.state = "joined"
          BY <1>1, <3>1, <4>1, <5>2 DEF AskInv, Rerun
        <5>3. QED
          BY <3>1, <5>1, <5>2
      <4>5. QED
        BY <1>1, <2>1, <3>1, <4>3, <4>4 DEF AskInv, Rotated
    <3>2. CASE ask.state \in {"waiting", "joined"} /\ ~(ok /\ ~again)
      <4>1. tracked
        BY <1>1, <3>2 DEF AskInv
      <4>2. ask' = NoAsk
        BY <2>1, <3>2, <4>1
      <4>3. QED
        BY <2>1, <4>2, NobodyAsks DEF AskInv
    <3>3. CASE ask.state \notin {"waiting", "joined"}
      <4>1. ask' = ask
        BY <2>1, <3>3
      <4>2. QED
        BY <1>1, <2>1, <3>3, <4>1 DEF AskInv, Rotated
    <3>4. QED
      BY <3>1, <3>2, <3>3
  <2>4. QED
    BY <1>1, <2>2, <2>3, WriterMoves
<1>4. QED
  BY <1>2, <1>3

LEMMA PortalKeeps ==
    RotationInv /\ (Answered \/ stopClientKeyWorkers \/ PortalRestart) => RotationInv'
<1> SUFFICES ASSUME RotationInv, Answered \/ stopClientKeyWorkers \/ PortalRestart
             PROVE  RotationInv'
  OBVIOUS
<1>1. /\ UNCHANGED <<file, worker, cacheVars>> /\ tracked' \in {tracked, FALSE}
      /\ (ask' = ask /\ tracked' = tracked) \/ ask' = NoAsk
  BY DEF Answered, stopClientKeyWorkers, PortalRestart
<1>2. WorkerInv'
  BY <1>1 DEF RotationInv, WorkerInv, Full, unexpired, Newest
<1>3. AskInv'
  <2>1. CASE ask' = ask /\ tracked' = tracked
    BY <1>1, <2>1 DEF RotationInv, AskInv, Rotated
  <2>2. CASE ask' = NoAsk
    <3>1. ask' \in AskType /\ ask'.state = "none"
      BY <2>2, NobodyAsks
    <3>2. tracked' \in BOOLEAN /\ (tracked' => tracked) /\ worker' = worker
      <4>1. worker' = worker /\ (tracked' = tracked \/ tracked' = FALSE)
        BY <1>1
      <4>2. tracked \in BOOLEAN
        BY DEF RotationInv, AskInv
      <4>3. CASE tracked' = tracked
        BY <4>1, <4>2, <4>3
      <4>4. CASE tracked' = FALSE
        BY <4>1, <4>4
      <4>5. QED
        BY <4>1, <4>3, <4>4
    <3>3. tracked' => worker'.op \in {"schedule", "reconcile"}
      BY <3>2 DEF RotationInv, AskInv
    <3>4. QED
      BY <3>1, <3>2, <3>3 DEF AskInv
  <2>3. QED
    BY <1>1, <2>1, <2>2
<1>4. QED
  BY <1>1, <1>2, <1>3, WriterMoves DEF RotationInv, ReachInv

\* An assertion is signed with the key that everybody knows.
LEMMA SignKeeps == RotationInv /\ selectClientSigningKey => RotationInv'
<1> SUFFICES ASSUME RotationInv, selectClientSigningKey PROVE RotationInv'
  OBVIOUS
<1>1. /\ sent' = [key |-> file.cur, left |-> AssertionTtl]
      /\ UNCHANGED <<file, ask, keyEdge, flight, sso, refused>>
      /\ (Spawn("reconcile") /\ ~tracked) \/ UNCHANGED <<worker, tracked>>
  BY DEF selectClientSigningKey
<1>2. file.cur \in Nat
  BY KeyFileFacts, PeriodsAreNat DEF RotationInv, FileInv
<1>3. sent' \in SentType /\ sent'.key = file.cur
  BY <1>1, <1>2, PeriodsAreNat DEF SentType
<1>4. CacheTypeOK' /\ FileInv' /\ StillPublished' /\ ~refused'
  BY <1>1, <1>3 DEF RotationInv, CacheTypeOK, FileInv, WrittenBefore, StillPublished
<1>5. WorkerInv' /\ (worker'.pc = "arm" => worker' = worker) /\ AskInv'
  <2>1. CASE Spawn("reconcile") /\ ~tracked
    <3>1. WorkerInv' /\ worker'.pc = "start" /\ worker'.op = "reconcile" /\ tracked' = TRUE
      BY <2>1, SpawnedWriter DEF Spawn
    <3>2. AskInv'
      BY <1>1, <2>1, <3>1 DEF RotationInv, AskInv, Rotated
    <3>3. QED
      BY <3>1, <3>2
  <2>2. CASE UNCHANGED <<worker, tracked>>
    BY <1>1, <2>2 DEF RotationInv, WorkerInv, Full, unexpired, Newest, AskInv, Rotated
  <2>3. QED
    BY <1>1, <2>1, <2>2
<1>6. ReachInv'
  BY <1>1, <1>3, <1>5 DEF RotationInv, ReachInv, KnownEverywhere, KnownIn, Trusted
<1>7. QED
  BY <1>4, <1>5, <1>6 DEF RotationInv

(* The renames.                                                            *)

\* A rename leaves the writer in the phase that fits the new file.
LEMMA RenamedWriter ==
    ASSUME WorkerInv, AskInv, NEW phase \in {"stage", "arm", "activate"}, NEW f \in KeyFile,
           Rename(phase, f)
    PROVE  /\ WorkerInv' /\ worker'.op = worker.op /\ ~worker'.written
           /\ worker'.pc # "stage"
<1>1. /\ worker \in WorkerType /\ file' = f
      /\ worker' = [worker EXCEPT !.pc = NextPhase("reconcile", f), !.written = FALSE, !.wait = Unarmed]
  BY DEF Rename, WorkerInv
<1>2. /\ NextPhase("reconcile", f) \in {"arm", "activate", "done"}
      /\ NextPhase("reconcile", f) = "arm" => f.pend # NoKey /\ f.wait = Unarmed
      /\ NextPhase("reconcile", f) = "activate" => f.pend # NoKey /\ f.wait = 0
  BY NextPhaseFits
<1>3. Unarmed \in Unarmed..Propagation
  BY PeriodsAreNat DEF Unarmed
<1>4. /\ worker' \in WorkerType /\ worker'.pc = NextPhase("reconcile", f) /\ ~worker'.written
      /\ worker'.op = worker.op
  BY <1>1, <1>2, <1>3 DEF WorkerType
<1>5. QED
  BY <1>1, <1>2, <1>4 DEF WorkerInv

\* The step is safe if the new file keeps what assertions need.
LEMMA RenameKeeps ==
    ASSUME RotationInv, NEW phase \in {"stage", "arm", "activate"}, NEW f \in KeyFile,
           Rename(phase, f), WrittenBefore(f), file.cur <= f.cur, f.cur \in Nat,
           f.pend # NoKey \/ file.cur < f.cur,
           KnownEverywhere(f.cur),
           f.pend # NoKey /\ f.wait # Unarmed => KnownIn(f.pend, f.wait),
           sent.key # NoKey =>
             \/ sent.key = f.cur
             \/ sent.key \in DOMAIN f.retired /\ f.retired[sent.key] > sent.left
    PROVE  RotationInv'
<1>1. /\ file' = f /\ UNCHANGED <<tracked, ask, cacheVars>>
  BY DEF Rename
<1>2. /\ keyEdge' = keyEdge /\ flight' = flight /\ sso' = sso /\ sent' = sent /\ refused' = refused
  BY <1>1 DEF cacheVars
<1>3. WorkerInv' /\ worker'.op = worker.op /\ ~worker'.written /\ worker'.pc # "stage"
  BY RenamedWriter DEF RotationInv
<1>4. CacheTypeOK' /\ FileInv' /\ StillPublished' /\ ~refused'
  BY <1>1, <1>2 DEF RotationInv, CacheTypeOK, FileInv, StillPublished
<1>5. ReachInv'
  BY <1>1, <1>2, <1>3 DEF RotationInv, ReachInv, KnownEverywhere, KnownIn, Trusted
<1>6. AskInv'
  <2>1. file.cur \in Nat /\ AskInv /\ ask \in AskType /\ ask.cur \in Nat
    BY KeyFileFacts, PeriodsAreNat DEF RotationInv, FileInv, AskInv, AskType
  <2>2. ask.state # "none" => ask.cur <= f.cur /\ (f.pend # NoKey \/ ask.cur < f.cur)
    BY <2>1 DEF AskInv
  <2>3. QED
    BY <1>1, <1>3, <2>1, <2>2 DEF AskInv, Rotated
<1>7. QED
  BY <1>3, <1>4, <1>5, <1>6 DEF RotationInv

LEMMA StageKeeps == RotationInv /\ Rename("stage", Staged(file)) => RotationInv'
<1> SUFFICES ASSUME RotationInv, Rename("stage", Staged(file)) PROVE RotationInv'
  OBVIOUS
<1>1. /\ worker.pc = "stage" /\ worker.written /\ file \in KeyFile /\ WrittenBefore(file)
      /\ CacheTypeOK /\ FileInv /\ StillPublished
  BY DEF Rename, RotationInv, FileInv
<1>2. file.pend = NoKey /\ ~Full(file) /\ Newest(file) < MaxKey
  BY <1>1 DEF RotationInv, WorkerInv
<1>3. /\ Staged(file) \in KeyFile /\ WrittenBefore(Staged(file))
      /\ Staged(file).cur = file.cur /\ Staged(file).pend = file.cur + 1
      /\ Staged(file).wait = Unarmed /\ Staged(file).retired = unexpired(file)
  BY <1>1, <1>2, StagedSound
<1>4. file.cur \in Nat /\ file.cur + 1 # NoKey
  BY <1>1, KeyFileFacts, PeriodsAreNat DEF NoKey
<1>5. sent.key # NoKey =>
        \/ sent.key = file.cur
        \/ sent.key \in DOMAIN unexpired(file) /\ unexpired(file)[sent.key] > sent.left
  <2>1. sent.left \in Nat
    BY <1>1, PeriodsAreNat DEF CacheTypeOK, SentType
  <2>3. \A k \in DOMAIN file.retired : file.retired[k] > sent.left => k \in DOMAIN unexpired(file)
    BY <1>1, <2>1, LongLived
  <2>4. QED
    BY <1>1, <2>3, UnexpiredFacts DEF StillPublished
<1> DEFINE f == Staged(file)
<1>6. /\ f \in KeyFile /\ WrittenBefore(f) /\ file.cur <= f.cur /\ f.cur \in Nat
      /\ f.pend # NoKey /\ f.wait = Unarmed /\ KnownEverywhere(f.cur)
      /\ Rename("stage", f)
      /\ sent.key # NoKey =>
           \/ sent.key = f.cur
           \/ sent.key \in DOMAIN f.retired /\ f.retired[sent.key] > sent.left
  BY <1>3, <1>4, <1>5 DEF RotationInv, ReachInv
<1> HIDE DEF f
<1>7. QED
  BY <1>6, RenameKeeps

LEMMA ArmKeeps == RotationInv /\ Rename("arm", Armed(file, worker.wait)) => RotationInv'
<1> SUFFICES ASSUME RotationInv, Rename("arm", Armed(file, worker.wait)) PROVE RotationInv'
  OBVIOUS
<1>1. /\ worker.pc = "arm" /\ worker.written /\ file \in KeyFile /\ WrittenBefore(file)
      /\ worker \in WorkerType /\ StillPublished
  BY DEF Rename, RotationInv, FileInv, WorkerInv
<1>2. file.pend # NoKey /\ worker.wait \in 0..Propagation
  BY <1>1, PeriodsAreNat DEF RotationInv, WorkerInv, WorkerType, Unarmed
<1> DEFINE f == Armed(file, worker.wait)
<1>3. /\ f \in KeyFile /\ WrittenBefore(f) /\ f.cur = file.cur /\ f.pend = file.pend
      /\ f.wait = worker.wait /\ f.retired = file.retired
  BY <1>1, <1>2, ArmedSound
<1>4. file.cur \in Nat
  BY <1>1, KeyFileFacts, PeriodsAreNat
<1>5. KnownEverywhere(file.cur) /\ KnownIn(file.pend, worker.wait)
  BY <1>1 DEF RotationInv, ReachInv
<1>6. Rename("arm", f)
  OBVIOUS
<1> HIDE DEF f
<1>7. /\ file.cur <= f.cur /\ f.cur \in Nat /\ f.pend # NoKey /\ KnownEverywhere(f.cur)
      /\ KnownIn(f.pend, f.wait)
      /\ sent.key # NoKey =>
           \/ sent.key = f.cur
           \/ sent.key \in DOMAIN f.retired /\ f.retired[sent.key] > sent.left
  BY <1>1, <1>2, <1>3, <1>4, <1>5 DEF StillPublished
<1>8. QED
  BY <1>3, <1>6, <1>7, RenameKeeps

\* The wait is over, so everybody knows the new signer.
LEMMA ActivateKeeps == RotationInv /\ Rename("activate", Activated(file)) => RotationInv'
<1> SUFFICES ASSUME RotationInv, Rename("activate", Activated(file)) PROVE RotationInv'
  OBVIOUS
<1>1. /\ worker.pc = "activate" /\ file \in KeyFile /\ WrittenBefore(file)
      /\ CacheTypeOK /\ StillPublished
  BY DEF Rename, RotationInv, FileInv
<1>2. file.pend # NoKey /\ file.wait = 0
  BY <1>1 DEF RotationInv, WorkerInv
<1>3. KnownEverywhere(file.pend)
  <2>1. KnownIn(file.pend, 0)
    BY <1>2 DEF RotationInv, ReachInv, Unarmed
  <2>2. QED
    BY <1>1, <2>1, DueIsKnown
<1> DEFINE f == Activated(file)
<1>4. /\ f \in KeyFile /\ WrittenBefore(f) /\ f.cur = file.pend /\ f.pend = NoKey
      /\ DOMAIN f.retired = DOMAIN unexpired(file) \cup {file.cur}
      /\ f.retired[file.cur] = Retention
      /\ \A k \in DOMAIN unexpired(file) : k # file.cur /\ f.retired[k] = file.retired[k]
  BY <1>1, <1>2, ActivatedSound
<1>5. file.cur \in Nat /\ file.pend \in Nat /\ file.cur < file.pend
  BY <1>1, <1>2, KeyFileFacts, PeriodsAreNat DEF WrittenBefore
<1>6. Rename("activate", f)
  OBVIOUS
<1>7. sent.key # NoKey => sent.key \in DOMAIN f.retired /\ f.retired[sent.key] > sent.left
  <2> HIDE DEF f
  <2> SUFFICES ASSUME sent.key # NoKey
               PROVE  sent.key \in DOMAIN f.retired /\ f.retired[sent.key] > sent.left
    OBVIOUS
  <2>1. sent.left \in Nat /\ sent.left < Retention
    BY <1>1, PeriodsAreNat DEF CacheTypeOK, SentType
  <2>2. CASE sent.key = file.cur
    BY <1>4, <2>1, <2>2, PeriodsAreNat
  <2>3. CASE sent.key \in DOMAIN file.retired /\ file.retired[sent.key] > sent.left
    <3>1. sent.key \in DOMAIN unexpired(file)
      BY <1>1, <2>1, <2>3, LongLived
    <3>2. QED
      BY <1>4, <2>3, <3>1
  <2>4. QED
    BY <1>1, <2>2, <2>3 DEF StillPublished
<1> HIDE DEF f
<1>8. file.cur <= f.cur /\ f.cur \in Nat /\ file.cur < f.cur /\ KnownEverywhere(f.cur)
  BY <1>3, <1>4, <1>5
<1>9. QED
  BY <1>4, <1>6, <1>7, <1>8, RenameKeeps

(* The caches and the resolver.                                            *)

LEMMA FetchKeeps == RotationInv /\ fetchClientJwks => RotationInv'
<1> SUFFICES ASSUME RotationInv, fetchClientJwks PROVE RotationInv'
  OBVIOUS
<1> DEFINE P == [keys |-> projection(file), age |-> 0]
<1>1. /\ UNCHANGED <<file, writerVars, sso, sent, refused>>
      /\ \/ /\ keyEdge # Never /\ keyEdge' = keyEdge /\ flight' = [keys |-> keyEdge.keys, age |-> 0]
         \/ keyEdge' = P /\ flight' = [keys |-> P.keys, age |-> 0]
  BY DEF fetchClientJwks, ServeSet
<1>2. /\ CacheTypeOK /\ keyEdge \in SetType /\ flight \in SetType /\ sso \in SetType
      /\ projection(file) \in SUBSET Nat
  BY PublishedKeys DEF RotationInv, CacheTypeOK
<1>3. CASE keyEdge # Never /\ keyEdge' = keyEdge /\ flight' = [keys |-> keyEdge.keys, age |-> 0]
  <2>1. flight' \in SetType /\ flight'.keys = keyEdge.keys /\ flight'.age = 0
    BY <1>2, <1>3 DEF SetType
  <2>2. CacheTypeOK'
    BY <1>1, <1>2, <1>3, <2>1, PeriodsAreNat DEF CacheTypeOK
  <2>3. \A k : KnownEverywhere(k) => KnownEverywhere(k)'
    BY <1>1, <1>3, <2>1 DEF KnownEverywhere, Trusted
  <2>4. ASSUME NEW k, NEW w \in Int, KnownIn(k, w) PROVE KnownIn(k, w)'
    <3>1. k \notin keyEdge.keys => w >= Transport - 0 + Cooling
      <4>1. k \notin keyEdge.keys => w >= EdgeTtl - 1 - keyEdge.age + Transport + Cooling
        BY <1>3, <2>4 DEF KnownIn
      <4>2. keyEdge.age \in Nat /\ keyEdge.age < EdgeTtl
        BY <1>2, <1>3 DEF CacheTypeOK, SetType
      <4>3. QED
        BY <4>1, <4>2, PeriodsAreNat
    <3>2. QED
      BY <1>1, <1>3, <2>1, <2>4, <3>1 DEF KnownIn, Trusted
  <2>5. QED
    BY <1>1, <2>2, <2>3, <2>4, CachesMove DEF RotationInv
<1>4. CASE keyEdge' = P /\ flight' = [keys |-> P.keys, age |-> 0]
  <2>1. /\ keyEdge' \in SetType /\ keyEdge'.keys = projection(file) /\ keyEdge'.age = 0
        /\ flight' \in SetType /\ flight'.keys = projection(file) /\ flight'.age = 0
    BY <1>2, <1>4 DEF SetType
  <2>2. CacheTypeOK'
    BY <1>1, <1>2, <2>1, PeriodsAreNat DEF CacheTypeOK
  <2>3. \A k \in projection(file) : KnownEverywhere(k) => KnownEverywhere(k)'
    BY <1>1, <2>1 DEF KnownEverywhere, Trusted
  <2>4. \A k \in projection(file), w \in Int : KnownIn(k, w) => KnownIn(k, w)'
    BY <1>1, <2>1 DEF KnownIn, Trusted
  <2>5. QED
    BY <1>1, <2>2, <2>3, <2>4, CachesMove DEF RotationInv
<1>5. QED
  BY <1>1, <1>3, <1>4

\* A fetch that ends makes nobody forget a key.
LEMMA ReloadKeeps ==
    ASSUME RotationInv, NEW ok \in BOOLEAN, reload(ok), UNCHANGED <<file, writerVars, keyEdge>>,
           ~refused', sent' = sent \/ sent' = [key |-> NoKey, left |-> 0]
    PROVE  RotationInv'
<1>1. /\ flight # Never /\ flight' = Never /\ keyEdge' = keyEdge
      /\ sso' = IF ok THEN [keys |-> flight.keys, age |-> 0] ELSE sso
  BY DEF reload
<1>2. /\ CacheTypeOK /\ keyEdge \in SetType /\ flight \in SetType /\ sso \in SetType
      /\ sent \in SentType /\ flight.age <= Transport
  BY <1>1 DEF RotationInv, CacheTypeOK
<1>3. sso' \in SetType /\ Never \in SetType
  BY <1>1, <1>2, PeriodsAreNat DEF SetType, Never
<1>4. sent' \in SentType /\ (sent' = sent \/ sent'.key = NoKey)
  BY <1>2, PeriodsAreNat DEF SentType, NoKey
<1>5. CacheTypeOK'
  BY <1>1, <1>2, <1>3, <1>4 DEF CacheTypeOK
<1>6. sso' = sso \/ (sso'.keys = flight.keys /\ sso'.age = 0)
  BY <1>1
<1>7. \A k : KnownEverywhere(k) => KnownEverywhere(k)'
  BY <1>1, <1>6 DEF KnownEverywhere, Trusted
<1>8. ASSUME NEW k, NEW w \in Int, KnownIn(k, w) PROVE KnownIn(k, w)'
  <2>1. k \notin flight.keys => w >= Cooling - 0
    <3>1. k \notin flight.keys => w >= Transport - flight.age + Cooling
      BY <1>1, <1>8 DEF KnownIn
    <3>2. flight.age \in Nat
      BY <1>2 DEF SetType
    <3>3. QED
      BY <1>2, <3>1, <3>2, PeriodsAreNat
  <2>2. CASE sso' = sso
    BY <1>1, <1>8, <2>2 DEF KnownIn, Trusted
  <2>3. CASE sso'.keys = flight.keys /\ sso'.age = 0
    BY <1>1, <1>8, <2>1, <2>3 DEF KnownIn, Trusted
  <2>4. QED
    BY <1>6, <2>2, <2>3
<1>9. QED
  BY <1>4, <1>5, <1>7, <1>8, CachesMove

\* The assertion is verified: whichever set decides knows its key.
LEMMA VerifyKeeps == RotationInv /\ assertedClient => RotationInv'
<1> SUFFICES ASSUME RotationInv, assertedClient PROVE RotationInv'
  OBVIOUS
<1>1. /\ sent.key # NoKey /\ resolve(sent.key) /\ sent' = [key |-> NoKey, left |-> 0]
      /\ UNCHANGED <<file, writerVars, keyEdge>>
  BY DEF assertedClient
<1>2. KnownEverywhere(sent.key)
  BY <1>1 DEF RotationInv, ReachInv
<1>3. CASE /\ fresh /\ (sent.key \in sso.keys \/ coolingDown) /\ refused' = (sent.key \notin sso.keys)
           /\ UNCHANGED <<flight, sso>>
  <2>1. sent.key \in sso.keys
    BY <1>2, <1>3 DEF KnownEverywhere, Trusted, fresh, coolingDown
  <2>2. ~refused'
    BY <1>3, <2>1
  <2>3. CacheTypeOK' /\ sent'.key = NoKey
    BY <1>1, <1>3, PeriodsAreNat DEF RotationInv, CacheTypeOK, SentType, NoKey
  <2>4. \A k : KnownEverywhere(k) => KnownEverywhere(k)'
    BY <1>1, <1>3 DEF KnownEverywhere, Trusted
  <2>5. \A k, w : KnownIn(k, w) => KnownIn(k, w)'
    BY <1>1, <1>3 DEF KnownIn, Trusted
  <2>6. QED
    BY <1>1, <2>2, <2>3, <2>4, <2>5, CachesMove
<1>4. CASE reload(FALSE) /\ refused' = FALSE
  BY <1>1, <1>4, ReloadKeeps
<1>5. CASE reload(TRUE) /\ refused' = (sent.key \notin sso'.keys)
  <2>1. sso'.keys = flight.keys /\ flight # Never
    BY <1>5 DEF reload
  <2>2. ~refused'
    BY <1>2, <1>5, <2>1 DEF KnownEverywhere
  <2>3. QED
    BY <1>1, <1>5, <2>2, ReloadKeeps
<1>6. QED
  BY <1>1, <1>3, <1>4, <1>5 DEF resolve

(* A tick.                                                                 *)

Ticked(f) ==
    [f EXCEPT !.wait = Sooner(f.wait),
              !.retired = IF f.old THEN f.retired
                          ELSE [k \in DOMAIN f.retired |-> Sooner(f.retired[k])]]

LEMMA TickedSound ==
    ASSUME NEW f \in KeyFile, WrittenBefore(f)
    PROVE  /\ Ticked(f) \in KeyFile /\ WrittenBefore(Ticked(f))
           /\ Ticked(f).cur = f.cur /\ Ticked(f).pend = f.pend /\ Ticked(f).wait = Sooner(f.wait)
           /\ DOMAIN Ticked(f).retired = DOMAIN f.retired
           /\ \A k \in DOMAIN f.retired :
                Ticked(f).retired[k] \in {f.retired[k], Sooner(f.retired[k])}
           /\ ~Full(f) => ~Full(Ticked(f))
<1> DEFINE D == DOMAIN f.retired
<1> DEFINE s == [k \in D |-> Sooner(f.retired[k])]
<1> DEFINE r == IF f.old THEN f.retired ELSE s
<1> DEFINE g == Ticked(f)
<1>1. /\ f.cur \in 1..MaxKey /\ f.pend \in 0..MaxKey /\ f.wait \in Unarmed..Propagation
      /\ f.old \in BOOLEAN /\ D \in SUBSET (1..MaxKey) /\ f.retired \in [D -> 0..Retention]
  BY KeyFileFacts
<1>2. Sooner(f.wait) \in Unarmed..Propagation /\ (f.wait = Unarmed => Sooner(f.wait) = Unarmed)
  BY <1>1, PeriodsAreNat DEF Sooner, Unarmed
<1>3. \A k \in D : Sooner(f.retired[k]) \in 0..Retention /\ Sooner(f.retired[k]) <= f.retired[k]
  BY <1>1, PeriodsAreNat DEF Sooner
<1>4. s \in [D -> 0..Retention]
  BY <1>3
<1>5. r \in [D -> 0..Retention] /\ \A k \in D : r[k] \in {f.retired[k], Sooner(f.retired[k])}
  BY <1>1, <1>4
<1>6. g = [f EXCEPT !.wait = Sooner(f.wait), !.retired = r]
  BY DEF Ticked
<1> HIDE DEF s, r, g
<1>7. r \in UNION {[R -> 0..Retention] : R \in SUBSET (1..MaxKey)}
  BY <1>1, <1>5, RetiredType
<1>8. g \in KeyFile
  BY <1>2, <1>6, <1>7 DEF KeyFile
<1>9. g.cur = f.cur /\ g.pend = f.pend /\ g.wait = Sooner(f.wait) /\ g.retired = r
  BY <1>6 DEF KeyFile
<1>10. DOMAIN g.retired = D
  BY <1>5, <1>9
<1>11. ~Full(f) => ~Full(g)
  <2> SUFFICES ASSUME ~Full(f) PROVE ~Full(g)
    OBVIOUS
  <2>1. \A k \in D : r[k] > 0 => f.retired[k] > 0
    BY <1>1, <1>3, <1>5, PeriodsAreNat
  <2>2. DOMAIN unexpired(g) \subseteq DOMAIN unexpired(f)
    BY <1>8, <1>9, <1>10, <2>1, UnexpiredFacts
  <2>3. /\ IsFiniteSet(DOMAIN unexpired(f)) /\ Cardinality(DOMAIN unexpired(g)) \in Nat
        /\ Cardinality(DOMAIN unexpired(f)) \in Nat
    BY <1>8, UnexpiredFacts
  <2>4. Cardinality(DOMAIN unexpired(g)) <= Cardinality(DOMAIN unexpired(f))
    BY <2>2, <2>3, FS_Subset
  <2>5. Cardinality(DOMAIN unexpired(f)) < MaxRetired
    BY RoomLeft
  <2>6. QED
    BY <2>3, <2>4, <2>5, PeriodsAreNat DEF Full
<1>12. WrittenBefore(g)
  BY <1>2, <1>9, <1>10, <1>11 DEF WrittenBefore, decode
<1>13. QED
  BY <1>5, <1>8, <1>9, <1>10, <1>11, <1>12 DEF g

LEMMA TickedCaches ==
    ASSUME CacheTypeOK, KeyTick
    PROVE  /\ CacheTypeOK'
           /\ \A k : KnownEverywhere(k) => KnownEverywhere(k)'
           /\ \A k : \A w \in Nat : KnownIn(k, w) => KnownIn(k, Sooner(w))'
<1>1. /\ keyEdge \in SetType /\ flight \in SetType /\ sso \in SetType /\ sent \in SentType
      /\ keyEdge # Never => keyEdge.age < EdgeTtl
      /\ flight # Never => flight.age < Transport
      /\ keyEdge' = IF keyEdge = Never \/ keyEdge.age + 1 >= EdgeTtl THEN Never
                    ELSE [keyEdge EXCEPT !.age = keyEdge.age + 1]
      /\ flight' = IF flight = Never THEN Never ELSE [flight EXCEPT !.age = flight.age + 1]
      /\ sso' = Aged(sso)
      /\ sent' = IF sent.left = 0 THEN [key |-> NoKey, left |-> 0]
                 ELSE [sent EXCEPT !.left = sent.left - 1]
  BY DEF CacheTypeOK, KeyTick
<1>2. Never \in SetType /\ Never.age = FreshFor
  BY PeriodsAreNat DEF Never, SetType
\* A set that is still there is one tick older, the keys are the same.
<1>3. \/ keyEdge' = Never
      \/ /\ keyEdge # Never /\ keyEdge.age \in Nat
         /\ keyEdge' \in SetType /\ keyEdge'.keys = keyEdge.keys /\ keyEdge'.age = keyEdge.age + 1
         /\ keyEdge'.age < EdgeTtl
  <2>1. CASE keyEdge = Never \/ keyEdge.age + 1 >= EdgeTtl
    BY <1>1, <2>1
  <2>2. CASE ~(keyEdge = Never \/ keyEdge.age + 1 >= EdgeTtl)
    <3>1. keyEdge' = [keyEdge EXCEPT !.age = keyEdge.age + 1] /\ keyEdge.age \in Nat
      BY <1>1, <2>2 DEF SetType
    <3>2. keyEdge' \in SetType /\ keyEdge'.keys = keyEdge.keys /\ keyEdge'.age = keyEdge.age + 1
      BY <1>1, <3>1 DEF SetType
    <3>3. QED
      BY <2>2, <3>1, <3>2, PeriodsAreNat
  <2>3. QED
    BY <2>1, <2>2
<1>4. \/ flight' = Never
      \/ /\ flight # Never /\ flight.age \in Nat /\ flight' \in SetType
         /\ flight'.keys = flight.keys /\ flight'.age = flight.age + 1 /\ flight'.age <= Transport
  <2>1. CASE flight = Never
    BY <1>1, <2>1
  <2>2. CASE flight # Never
    <3>1. flight' = [flight EXCEPT !.age = flight.age + 1] /\ flight.age \in Nat
      BY <1>1, <2>2 DEF SetType
    <3>2. flight' \in SetType /\ flight'.keys = flight.keys /\ flight'.age = flight.age + 1
      BY <1>1, <3>1 DEF SetType
    <3>3. QED
      BY <1>1, <2>2, <3>1, <3>2, PeriodsAreNat
  <2>3. QED
    BY <2>1, <2>2
<1>5. \/ sso' = Never
      \/ /\ sso.age \in Nat /\ sso' \in SetType /\ sso'.keys = sso.keys /\ sso'.age = sso.age + 1
         /\ sso.age + 1 < FreshFor
  <2>1. CASE sso.age >= FreshFor - 1
    BY <1>1, <2>1 DEF Aged
  <2>2. CASE ~(sso.age >= FreshFor - 1)
    <3>1. sso' = [sso EXCEPT !.age = sso.age + 1] /\ sso.age \in Nat
      BY <1>1, <2>2 DEF Aged, SetType
    <3>2. sso' \in SetType /\ sso'.keys = sso.keys /\ sso'.age = sso.age + 1
      BY <1>1, <3>1 DEF SetType
    <3>3. QED
      BY <2>2, <3>1, <3>2, PeriodsAreNat
  <2>3. QED
    BY <2>1, <2>2
<1>6. sent' \in SentType
  <2>1. sent.left \in 0..AssertionTtl
    BY <1>1 DEF SentType
  <2>2. CASE sent.left = 0
    BY <1>1, <2>2, PeriodsAreNat DEF SentType, NoKey
  <2>3. CASE sent.left # 0
    <3>1. sent.left - 1 \in 0..AssertionTtl
      BY <2>1, <2>3, PeriodsAreNat
    <3>2. QED
      BY <1>1, <2>3, <3>1 DEF SentType
  <2>4. QED
    BY <2>2, <2>3
<1>7. CacheTypeOK'
  BY <1>2, <1>3, <1>4, <1>5, <1>6 DEF CacheTypeOK
<1>8. Trusted' => Trusted /\ sso'.keys = sso.keys /\ sso'.age = sso.age + 1 /\ sso.age \in Nat
  <2>1. sso' = Never => ~Trusted'
    BY <1>2, PeriodsAreNat DEF Trusted
  <2>2. QED
    BY <1>5, <2>1, PeriodsAreNat DEF Trusted
<1>9. \A k : KnownEverywhere(k) => KnownEverywhere(k)'
  BY <1>3, <1>4, <1>8 DEF KnownEverywhere
<1>10. ASSUME NEW k, NEW w \in Nat, KnownIn(k, w) PROVE KnownIn(k, Sooner(w))'
  <2>1. CASE w = 0
    <3>1. KnownEverywhere(k)'
      BY <1>9, <1>10, <2>1, DueIsKnown
    <3>2. QED
      BY <3>1 DEF KnownEverywhere, KnownIn
  <2>2. CASE w # 0
    <3>1. Sooner(w) = w - 1
      BY <2>2 DEF Sooner
    <3>2. keyEdge' # Never /\ k \notin keyEdge'.keys
            => w - 1 >= EdgeTtl - 1 - keyEdge'.age + Transport + Cooling
      BY <1>3, <1>10, PeriodsAreNat DEF KnownIn
    <3>3. flight' # Never /\ k \notin flight'.keys => w - 1 >= Transport - flight'.age + Cooling
      BY <1>4, <1>10, PeriodsAreNat DEF KnownIn
    <3>4. Trusted' /\ k \notin sso'.keys => w - 1 >= Cooling - sso'.age
      BY <1>8, <1>10, PeriodsAreNat DEF KnownIn
    <3>5. QED
      BY <3>1, <3>2, <3>3, <3>4 DEF KnownIn
  <2>3. QED
    BY <2>1, <2>2
<1>11. QED
  BY <1>7, <1>9, <1>10

LEMMA TickKeeps == RotationInv /\ KeyTick => RotationInv'
<1> SUFFICES ASSUME RotationInv, KeyTick PROVE RotationInv'
  OBVIOUS
<1>1. /\ file \in KeyFile /\ WrittenBefore(file) /\ CacheTypeOK /\ worker \in WorkerType
      /\ file' = Ticked(file) /\ worker' = [worker EXCEPT !.wait = Sooner(worker.wait)]
      /\ UNCHANGED <<tracked, ask, refused>>
  BY DEF RotationInv, FileInv, WorkerInv, KeyTick, Ticked
<1>2. /\ file' \in KeyFile /\ WrittenBefore(file')
      /\ file'.cur = file.cur /\ file'.pend = file.pend /\ file'.wait = Sooner(file.wait)
      /\ DOMAIN file'.retired = DOMAIN file.retired
      /\ \A k \in DOMAIN file.retired :
           file'.retired[k] \in {file.retired[k], Sooner(file.retired[k])}
      /\ ~Full(file) => ~Full(file')
  BY <1>1, TickedSound
<1>3. /\ CacheTypeOK'
      /\ \A k : KnownEverywhere(k) => KnownEverywhere(k)'
      /\ \A k : \A w \in Nat : KnownIn(k, w) => KnownIn(k, Sooner(w))'
  BY <1>1, TickedCaches
<1>4. FileInv'
  BY <1>2 DEF FileInv
<1>5. /\ worker' \in WorkerType /\ worker'.op = worker.op /\ worker'.pc = worker.pc
      /\ worker'.written = worker.written /\ worker'.wait = Sooner(worker.wait)
      /\ worker.wait >= 0 => worker'.wait >= 0 /\ worker.wait \in Nat
  <2>1. worker.wait \in Unarmed..Propagation
    BY <1>1 DEF WorkerType
  <2>2. Sooner(worker.wait) \in Unarmed..Propagation /\ (worker.wait >= 0 => Sooner(worker.wait) >= 0)
    BY <2>1, PeriodsAreNat DEF Sooner, Unarmed
  <2>3. QED
    BY <1>1, <2>1, <2>2, PeriodsAreNat DEF WorkerType, Unarmed
<1>6. WorkerInv'
  <2>1. Newest(file)' = Newest(file)
    BY <1>2 DEF Newest
  <2>2. Sooner(Unarmed) = Unarmed /\ Sooner(0) = 0
    BY DEF Sooner, Unarmed
  <2>3. Full(file)' => Full(file)
    BY <1>2 DEF Full, unexpired
  <2>4. QED
    BY <1>2, <1>5, <2>1, <2>2, <2>3 DEF RotationInv, WorkerInv
<1>7. StillPublished'
  <2> SUFFICES ASSUME sent'.key # NoKey
               PROVE  \/ sent'.key = file'.cur
                      \/ sent'.key \in DOMAIN file'.retired /\ file'.retired[sent'.key] > sent'.left
    BY DEF StillPublished
  <2>1. sent.left # 0 /\ sent'.key = sent.key /\ sent'.left = sent.left - 1
    BY <1>1 DEF KeyTick, CacheTypeOK, SentType, NoKey
  <2>2. sent.left \in Nat
    BY <1>1, PeriodsAreNat DEF CacheTypeOK, SentType
  <2>3. ASSUME sent.key \in DOMAIN file.retired, file.retired[sent.key] > sent.left
        PROVE  file'.retired[sent.key] > sent.left - 1
    <3>1. file.retired[sent.key] \in Nat
      BY <1>1, <2>3, KeyFileFacts, PeriodsAreNat
    <3>2. file'.retired[sent.key] \in {file.retired[sent.key], file.retired[sent.key] - 1}
      BY <1>2, <2>2, <2>3, <3>1 DEF Sooner
    <3>3. QED
      BY <2>2, <2>3, <3>1, <3>2
  <2>4. QED
    BY <1>2, <2>1, <2>3 DEF RotationInv, StillPublished
<1>8. ReachInv'
  <2>1. KnownEverywhere(file.cur)'
    BY <1>2, <1>3 DEF RotationInv, ReachInv, KnownEverywhere
  <2>2. sent'.key # NoKey => sent'.key = sent.key
    BY <1>1 DEF KeyTick, CacheTypeOK, SentType, NoKey
  <2>3. ASSUME sent'.key # NoKey
        PROVE  /\ keyEdge' # Never => sent'.key \in keyEdge'.keys
               /\ flight' # Never => sent'.key \in flight'.keys
               /\ Trusted' => sent'.key \in sso'.keys
    BY <1>3, <2>2, <2>3 DEF RotationInv, ReachInv, KnownEverywhere
  <2>4. ASSUME file.pend # NoKey, file'.wait # Unarmed
        PROVE  KnownIn(file.pend, file.wait)' 
    <3>1. file.wait \in Nat
      BY <1>1, <1>2, <2>4, KeyFileFacts, PeriodsAreNat DEF Sooner, Unarmed
    <3>2. KnownIn(file.pend, file.wait)
      BY <2>4, <3>1 DEF RotationInv, ReachInv, Unarmed
    <3>3. QED
      BY <1>2, <1>3, <3>1, <3>2 DEF KnownIn
  <2>5. ASSUME worker.pc = "arm", worker.written
        PROVE  KnownIn(file.pend, worker.wait)'
    <3>1. worker.wait \in Nat
      BY <1>5, <2>5 DEF RotationInv, WorkerInv
    <3>2. KnownIn(file.pend, worker.wait)
      BY <2>5 DEF RotationInv, ReachInv
    <3>3. QED
      BY <1>2, <1>3, <1>5, <3>1, <3>2 DEF KnownIn
  <2>6. QED
    BY <1>2, <1>5, <2>1, <2>3, <2>4, <2>5 DEF ReachInv, KnownEverywhere
<1>9. AskInv'
  BY <1>1, <1>2, <1>5 DEF RotationInv, AskInv, Rotated
<1>10. QED
  BY <1>1, <1>3, <1>4, <1>6, <1>7, <1>8, <1>9 DEF RotationInv

LEMMA RotationStep == RotationInv /\ [PortalKeyNext]_keyVars => RotationInv'
<1> SUFFICES ASSUME RotationInv, [PortalKeyNext]_keyVars PROVE RotationInv'
  OBVIOUS
<1>1. CASE applyClientKeyOperationLocked
  BY <1>1, EnterKeeps, WriteTempKeeps, StageKeeps, ArmKeeps, ActivateKeeps
     DEF applyClientKeyOperationLocked
<1>2. CASE Killed \/ Close \/ Answered \/ stopClientKeyWorkers \/ PortalRestart
  BY <1>2, KilledKeeps, CloseKeeps, PortalKeeps
<1>3. CASE rotateRelay
  BY <1>3, ScheduleKeeps DEF rotateRelay, createClientKeyRouter
<1>4. CASE statusRelay
  BY <1>4, StatusKeeps DEF statusRelay, createClientKeyRouter
<1>5. CASE selectClientSigningKey
  BY <1>5, SignKeeps
<1>6. CASE fetchClientJwks
  BY <1>6, FetchKeeps
<1>7. CASE FetchFailed \/ FetchedAlone
  <2>1. ~refused
    BY DEF RotationInv
  <2>2. PICK ok \in BOOLEAN : reload(ok) /\ UNCHANGED <<file, writerVars, keyEdge, sent, refused>>
    BY <1>7 DEF FetchFailed, FetchedAlone
  <2>3. QED
    BY <2>1, <2>2, ReloadKeeps
<1>8. CASE assertedClient
  BY <1>8, VerifyKeeps
<1>9. CASE KeyTick
  BY <1>9, TickKeeps
<1>10. CASE UNCHANGED keyVars
  <2>1. UNCHANGED <<file, worker, tracked, ask, cacheVars>>
    BY <1>10 DEF keyVars, cacheVars
  <2>2. WorkerInv' /\ AskInv'
    BY <2>1 DEF RotationInv, WorkerInv, AskInv, Rotated, Full, unexpired, Newest
  <2>3. QED
    BY <2>1, <2>2, WriterMoves DEF RotationInv, ReachInv
<1>11. QED
  BY <1>1, <1>2, <1>3, <1>4, <1>5, <1>6, <1>7, <1>8, <1>9, <1>10 DEF PortalKeyNext

(* However the writer is killed, delayed or joined, and whatever the       *)
(* caches hold: an assertion that the portal signs is never refused for an *)
(* unknown key, and an answered rotation request led to a rotation         *)
(* (applyClientKeyOperationLocked, resolve, mutate).                       *)
THEOREM RotationAlwaysSafe == PortalKeySpec => []RotationSafe
<1>1. (\E f \in KeyFile : WrittenBefore(f) /\ PortalKeyInit(f)) => RotationInv
  BY RotationStart
<1>2. RotationInv => RotationSafe
  <2> SUFFICES ASSUME RotationInv PROVE RotationSafe
    OBVIOUS
  <2>1. file.cur \in Nat /\ ask.cur \in Nat
    BY KeyFileFacts, PeriodsAreNat DEF RotationInv, FileInv, AskInv, AskType
  <2>2. QED
    BY <2>1 DEF RotationInv, AskInv, Rotated, RotationSafe
<1>3. QED
  BY <1>1, <1>2, RotationStep, PTL DEF PortalKeySpec

(* The file that every reader depends on always decodes, and its status is *)
(* one the administration's reader accepts (decode, readClientKeyStatus).  *)
THEOREM FileAlwaysReadable ==
    PortalKeySpec => [](decode(file) /\ readClientKeyStatus(statusDoc(file)))
<1>1. (\E f \in KeyFile : WrittenBefore(f) /\ PortalKeyInit(f)) => RotationInv
  BY RotationStart
<1>2. RotationInv => decode(file) /\ readClientKeyStatus(statusDoc(file))
  <2> SUFFICES ASSUME RotationInv PROVE decode(file) /\ readClientKeyStatus(statusDoc(file))
    OBVIOUS
  <2>1. decode(file) /\ file.cur # NoKey
    BY KeyFileFacts, PeriodsAreNat DEF RotationInv, FileInv, WrittenBefore, NoKey
  <2>2. file.pend = NoKey => file.wait = Unarmed
    BY <2>1 DEF decode
  <2>3. file.pend # file.cur
    BY <2>1 DEF decode
  <2>4. QED
    BY <2>1, <2>2, <2>3 DEF readClientKeyStatus, statusDoc
<1>3. QED
  BY <1>1, <1>2, RotationStep, PTL DEF PortalKeySpec

-----------------------------------------------------------------------------
(* First-run setup.  What a request has reached, and what the pages and    *)
(* the database rest on while no two pages' work met.                      *)
IsDisk(d) == d = [f \in {"env", "key", "cut", "token", "mtls"} |-> d[f]]
IsDb(d) == d = [f \in {"schema", "admins", "sealed"} |-> d[f]]
IsRam(r) == r = [f \in {"up", "complete", "configured", "pendingKek", "kek", "token", "boots", "mtls"} |-> r[f]]
IsTab(p) == p = [f \in {"at", "verified", "shown", "late", "loaded", "csr"} |-> p[f]]
IsPost(p) == p = [f \in {"kind", "step", "kek", "name"} |-> p[f]]
IsMtls(m) == m = [f \in {"key", "pending", "cert", "enforce"} |-> m[f]] /\ m.key = m.cert
Kinds == {"none", "config", "finish", "csr"}
Stages == {"none", "received", "captured", "persisted", "keyed", "committed"}
SetupShapes ==
    /\ site \in {"sso", "portal"} /\ minted \in Nat
    /\ IsDisk(disk) /\ disk.key \in Nat /\ IsMtls(disk.mtls)
    /\ IsDb(db) /\ db.sealed \in Nat
    /\ IsRam(ram) /\ ram.kek \in Nat /\ ram.pendingKek \in Nat /\ IsMtls(ram.mtls)
    /\ tab = [t \in Tabs |-> tab[t]]
    /\ \A t \in Tabs : IsTab(tab[t]) /\ tab[t].shown \in Nat /\ tab[t].late \subseteq Nat \ {0}
    /\ post = [t \in Tabs |-> post[t]]
    /\ \A t \in Tabs : IsPost(post[t]) /\ post[t].kind \in Kinds /\ post[t].step \in Stages /\ post[t].kek \in Nat

Is(t, k, step) == post[t].kind = k /\ post[t].step = step
Configured == disk.env /\ disk.key # 0
Underway ==
    /\ \A t \in Tabs :
         /\ post[t].kind # "none" => ram.up
         /\ post[t].step \in {"captured", "keyed"} => post[t].kind = "config" /\ post[t].kek # 0
         /\ post[t].step = "captured" => site = "sso"
         /\ post[t].step = "keyed" => site = "portal" /\ disk.env
         /\ Is(t, "config", "persisted") => disk.env /\ (site = "sso" => disk.key # 0)
         /\ post[t].step = "committed" => post[t].kind = "finish" /\ site = "sso" /\ db.admins # {} /\ Configured
         /\ post[t].step = "none" <=> post[t].kind = "none"
    /\ \A t \in Tabs : tab[t].verified /\ HoldsKey(t) => disk.key # 0 \/ "restart" \in shared
    /\ ram.up \/ ram.pendingKek = 0

\* A server is complete once it has its key or its operator.
Usable ==
    /\ site = "sso" => /\ ram.configured => Configured
                       /\ db.admins # {} => Configured \/ "torn" \in shared
                       /\ ram.complete => db.admins # {}
                       /\ ram.up => ram.kek = disk.key
    /\ site = "portal" => db.admins = {} /\ db.sealed = 0 /\ (ram.complete => Configured)

\* One finish at a time: its operator is the only one, and the wizard is over.
Alone(k) == \A t, u \in Tabs : post[t].kind = k /\ post[u].kind = k => t = u
OneOperator ==
    site = "sso" /\ shared \cap {"finish", "outage", "unanswered", "torn"} = {} =>
        /\ Alone("finish")
        /\ db.admins # {} =>
             /\ \E n \in db.admins : db.admins = {n}
             /\ \A t \in Tabs : ~Is(t, "finish", "received")
             /\ ~ram.up \/ ram.complete \/ \E t \in Tabs : post[t].step = "committed"

\* The key a save is about to write is the one in .env, or the candidate.
KeyToWrite ==
    /\ "config" \notin shared => Alone("config")
    /\ ~({"config", "regenerated"} \subseteq shared) => \A t \in Tabs : post[t].step = "captured" =>
         IF disk.key # 0 THEN post[t].kek = disk.key
         ELSE "regenerated" \notin shared => post[t].kek = ram.pendingKek
Candidate == IF site = "sso" /\ disk.key = 0 THEN ram.pendingKek ELSE disk.key
KeyShown ==
    shared \cap {"config", "restart", "regenerated", "overtaken"} = {} => \A t \in Tabs :
        /\ tab[t].late \subseteq {Candidate}
        /\ tab[t].shown # 0 /\ tab[t].late = {} => tab[t].shown = Candidate
        /\ tab[t].late # {} => ~tab[t].verified /\ post[t].kind # "config"
        /\ post[t].step = "keyed" => disk.key = 0

SetupInv == SetupShapes /\ Underway /\ Usable /\ OneOperator /\ SealedReadable /\ KeyToWrite /\ KeyShown

LEMMA SetupStart == \A s \in {"sso", "portal"} : SetupInit(s) => SetupInv
<1> SUFFICES ASSUME NEW s \in {"sso", "portal"}, SetupInit(s) PROVE SetupInv
  OBVIOUS
<1>1. /\ site = s /\ minted = 0 /\ shared = {}
      /\ disk = [env |-> FALSE, key |-> 0, cut |-> {}, token |-> FALSE, mtls |-> NoMtls]
      /\ db = [schema |-> FALSE, admins |-> {}, sealed |-> 0] /\ ram = Down
      /\ tab = [t \in Tabs |-> Opened] /\ post = [t \in Tabs |-> NoPost]
  BY DEF SetupInit, None_
<1>2. IsMtls(NoMtls) /\ IsTab(Opened) /\ Opened.shown = 0 /\ Opened.late = {} /\ ~Opened.verified
      /\ IsPost(NoPost) /\ NoPost.kind = "none" /\ NoPost.step = "none" /\ NoPost.kek = 0
  BY DEF NoMtls, IsMtls, Opened, IsTab, NoPost, IsPost, None_
<1>3. /\ IsRam(ram) /\ ~ram.up /\ ~ram.complete /\ ~ram.configured /\ ram.pendingKek = 0 /\ ram.kek = 0 /\ ram.mtls = NoMtls
      /\ IsDisk(disk) /\ disk.key = 0 /\ disk.mtls = NoMtls /\ IsDb(db) /\ db.admins = {} /\ db.sealed = 0
  BY <1>1 DEF Down, IsRam, IsDisk, IsDb, None_
<1>4. \A t \in Tabs : tab[t] = Opened /\ post[t] = NoPost
  BY <1>1
<1>5. SetupShapes
  BY <1>1, <1>2, <1>3, <1>4 DEF SetupShapes, Kinds, Stages
<1>6. Underway /\ Usable /\ OneOperator
  BY <1>1, <1>2, <1>3, <1>4 DEF Underway, Usable, OneOperator, Is, Alone
<1>7. SealedReadable /\ KeyToWrite /\ KeyShown
  BY <1>1, <1>2, <1>3, <1>4 DEF SealedReadable, KeyToWrite, KeyShown, Alone, None_
<1> QED BY <1>5, <1>6, <1>7 DEF SetupInv

\* Steps that leave the key, .env and the rows alone: requests end, pages turn,
\* the candidate key is made, replaced or dropped.
LEMMA Quiet ==
    ASSUME SetupInv, SetupShapes', KeyShown', site' = site, db'.admins = db.admins, db'.sealed = db.sealed,
           disk'.key = disk.key, disk'.env = disk.env, shared \subseteq shared',
           \A u \in Tabs : post'[u] = post[u] \/ post'[u] = NoPost,
           ram'.up = ram.up, ram'.kek = ram.kek, ram'.up \/ ram'.pendingKek = 0,
           ram'.configured => ram.configured \/ Configured, ram.complete => ram'.complete,
           ram'.complete => ram.complete \/ (site = "sso" /\ db.admins # {}) \/ (site = "portal" /\ Configured),
           \A u \in Tabs : post[u].step = "committed" => post'[u] = post[u] \/ ram'.complete,
           \A u \in Tabs : tab'[u].verified /\ HoldsKey(u)' => disk.key # 0 \/ (tab[u].verified /\ HoldsKey(u)),
           \/ ram'.pendingKek = ram.pendingKek \/ disk.key # 0 \/ ram.pendingKek = 0 \/ "regenerated" \in shared'
           \/ \A u \in Tabs : post'[u].kind = "none"
    PROVE  SetupInv'
<1>0. SetupShapes /\ Underway /\ Usable /\ OneOperator /\ SealedReadable /\ KeyToWrite /\ KeyShown
  BY DEF SetupInv
<1>1. NoPost.kind = "none" /\ NoPost.step = "none"
  BY DEF NoPost
<1>2. Underway'
  BY <1>0, <1>1 DEF Underway, Is, SetupShapes, Configured
<1>3. Usable'
  BY <1>0 DEF Usable, Configured, SetupShapes
<1>4. OneOperator'
  <2> SUFFICES ASSUME site = "sso", shared' \cap {"finish", "outage", "unanswered", "torn"} = {}
               PROVE  /\ Alone("finish")'
                      /\ db.admins # {} =>
                           /\ \E n \in db.admins : db.admins = {n}
                           /\ \A t \in Tabs : ~Is(t, "finish", "received")'
                           /\ ~ram'.up \/ ram'.complete \/ \E t \in Tabs : post'[t].step = "committed"
    BY DEF OneOperator
  <2>1. shared \cap {"finish", "outage", "unanswered", "torn"} = {}
    OBVIOUS
  <2>2. Alone("finish")'
    BY <1>0, <1>1, <2>1 DEF OneOperator, Alone
  <2>3. db.admins # {} => \A t \in Tabs : ~Is(t, "finish", "received")'
    BY <1>0, <1>1, <2>1 DEF OneOperator, Is
  <2>4. db.admins # {} => ~ram'.up \/ ram'.complete \/ \E t \in Tabs : post'[t].step = "committed"
    BY <1>0, <1>1, <2>1 DEF OneOperator
  <2> QED BY <1>0, <2>1, <2>2, <2>3, <2>4 DEF OneOperator
<1>5. SealedReadable'
  BY <1>0 DEF SealedReadable
<1>6. KeyToWrite'
  <2>1. "config" \notin shared' => Alone("config")'
    BY <1>0, <1>1 DEF KeyToWrite, Alone
  <2>2. ASSUME ~({"config", "regenerated"} \subseteq shared'), NEW t \in Tabs, post'[t].step = "captured"
        PROVE  IF disk.key # 0 THEN post'[t].kek = disk.key
               ELSE "regenerated" \notin shared' => post'[t].kek = ram'.pendingKek
    <3>1. post'[t] = post[t] /\ post[t].kek # 0 /\ post[t].kind = "config"
      BY <1>0, <1>1, <2>2 DEF Underway
    <3>2. IF disk.key # 0 THEN post[t].kek = disk.key
          ELSE "regenerated" \notin shared' => post[t].kek = ram.pendingKek
      BY <1>0, <2>2, <3>1 DEF KeyToWrite
    <3> QED BY <3>1, <3>2
  <2> QED BY <2>1, <2>2 DEF KeyToWrite
<1> QED BY <1>2, <1>3, <1>4, <1>5, <1>6 DEF SetupInv

\* The keys on the pages stay the candidate, or the one in .env.
LEMMA ShownKept ==
    ASSUME SetupInv, site' = site, disk'.key = disk.key, shared \subseteq shared',
           \A u \in Tabs : post'[u] = post[u] \/ post'[u] = NoPost,
           ram'.pendingKek = ram.pendingKek \/ disk.key # 0 \/ ram.pendingKek = 0,
           \A u \in Tabs :
             \/ tab'[u].late = {} /\ tab'[u].shown \in {0, Candidate'}
             \/ /\ tab'[u].late = tab[u].late /\ tab'[u].shown \in {tab[u].shown, Candidate'}
                /\ tab'[u].verified => tab[u].verified \/ post[u].kind = "config"
    PROVE  KeyShown'
<1>0. SetupShapes /\ KeyShown
  BY DEF SetupInv
<1>1. NoPost.kind = "none" /\ NoPost.step = "none"
  BY DEF NoPost
<1> SUFFICES ASSUME shared' \cap {"config", "restart", "regenerated", "overtaken"} = {}, NEW t \in Tabs
             PROVE  /\ tab'[t].late \subseteq {Candidate'}
                    /\ tab'[t].shown # 0 /\ tab'[t].late = {} => tab'[t].shown = Candidate'
                    /\ tab'[t].late # {} => ~tab'[t].verified /\ post'[t].kind # "config"
                    /\ post'[t].step = "keyed" => disk'.key = 0
  BY DEF KeyShown
<1>2. /\ tab[t].late \subseteq {Candidate}
      /\ tab[t].shown # 0 /\ tab[t].late = {} => tab[t].shown = Candidate
      /\ tab[t].late # {} => ~tab[t].verified /\ post[t].kind # "config"
      /\ post[t].step = "keyed" => disk.key = 0
  BY <1>0 DEF KeyShown
<1>3. tab[t].late \subseteq Nat \ {0}
  BY <1>0 DEF SetupShapes
<1>4. Candidate' = Candidate \/ Candidate = 0
  BY DEF Candidate
<1>5. post'[t].step = "keyed" => disk'.key = 0
  BY <1>1, <1>2
<1>6. tab'[t].late # {} => tab'[t].late = tab[t].late
  OBVIOUS
<1>7. tab'[t].late \subseteq {Candidate'}
  BY <1>2, <1>3, <1>4, <1>6
<1>8. tab'[t].shown # 0 /\ tab'[t].late = {} => tab'[t].shown = Candidate'
  BY <1>2, <1>4
<1>9. tab'[t].late # {} => ~tab'[t].verified /\ post'[t].kind # "config"
  BY <1>1, <1>2
<1> QED BY <1>5, <1>7, <1>8, <1>9

LEMMA TabWritten ==
    ASSUME SetupShapes, NEW t \in Tabs, NEW p, IsTab(p), p.shown \in Nat, p.late \subseteq Nat \ {0},
           tab' = [tab EXCEPT ![t] = p]
    PROVE  /\ tab' = [u \in Tabs |-> tab'[u]] /\ tab'[t] = p /\ \A u \in Tabs : u # t => tab'[u] = tab[u]
           /\ \A u \in Tabs : IsTab(tab'[u]) /\ tab'[u].shown \in Nat /\ tab'[u].late \subseteq Nat \ {0}
  BY DEF SetupShapes
LEMMA PostWritten ==
    ASSUME SetupShapes, NEW t \in Tabs, NEW p, IsPost(p), p.kind \in Kinds, p.step \in Stages, p.kek \in Nat,
           post' = [post EXCEPT ![t] = p]
    PROVE  /\ post' = [u \in Tabs |-> post'[u]] /\ post'[t] = p /\ \A u \in Tabs : u # t => post'[u] = post[u]
           /\ \A u \in Tabs : IsPost(post'[u]) /\ post'[u].kind \in Kinds /\ post'[u].step \in Stages /\ post'[u].kek \in Nat
  BY DEF SetupShapes
LEMMA NoPostFits == /\ IsPost(NoPost) /\ NoPost.kind = "none" /\ NoPost.step = "none" /\ NoPost.kek = 0
                    /\ NoPost.kind \in Kinds /\ NoPost.step \in Stages
  BY DEF NoPost, IsPost, Kinds, Stages, None_

\* The wizard's pages load, turn, ask for a new candidate.
LEMMA PageTurnsOK ==
    ASSUME SetupInv, NEW t \in Tabs,
           loadEnv_sso(t) \/ loadEnv_portal(t) \/ reloadPage(t) \/ turnPage(t) \/ regenArrives(t)
    PROVE  SetupInv'
<1>0. SetupShapes /\ Underway /\ UNCHANGED <<site, disk, db, post, shared>>
  BY DEF SetupInv, loadEnv_sso, loadEnv_portal, regenArrives, reloadPage, turnPage
<1>a. IsTab(tab[t]) /\ tab[t].shown \in Nat /\ tab[t].late \subseteq Nat \ {0} /\ minted \in Nat /\ IsRam(ram)
      /\ ram.pendingKek \in Nat
  BY <1>0 DEF SetupShapes
<1>b. IsTab(Opened) /\ Opened.shown = 0 /\ Opened.late = {} /\ ~Opened.verified
  BY DEF IsTab, Opened, None_
<1>1. CASE UNCHANGED <<ram, minted>> /\ \E p : /\ IsTab(p) /\ tab' = [tab EXCEPT ![t] = p]
             /\ \/ p.shown = 0 /\ p.late = {} /\ ~p.verified
                \/ p.shown = tab[t].shown /\ p.late = tab[t].late /\ p.verified = tab[t].verified
  <2>1. PICK p : /\ IsTab(p) /\ tab' = [tab EXCEPT ![t] = p]
                 /\ \/ p.shown = 0 /\ p.late = {} /\ ~p.verified
                    \/ p.shown = tab[t].shown /\ p.late = tab[t].late /\ p.verified = tab[t].verified
    BY <1>1
  <2>a. p.shown \in Nat /\ p.late \subseteq Nat \ {0}
    BY <1>a, <2>1
  <2>2. /\ tab' = [u \in Tabs |-> tab'[u]] /\ tab'[t] = p /\ \A u \in Tabs : u # t => tab'[u] = tab[u]
        /\ \A u \in Tabs : IsTab(tab'[u]) /\ tab'[u].shown \in Nat /\ tab'[u].late \subseteq Nat \ {0}
    BY <1>0, <2>1, <2>a, TabWritten
  <2>3. SetupShapes'
    BY <1>0, <1>1, <2>2 DEF SetupShapes
  <2>4. \A u \in Tabs :
             \/ tab'[u].late = {} /\ tab'[u].shown \in {0, Candidate'}
             \/ /\ tab'[u].late = tab[u].late /\ tab'[u].shown \in {tab[u].shown, Candidate'}
                /\ tab'[u].verified => tab[u].verified \/ post[u].kind = "config"
    BY <2>1, <2>2
  <2>5. KeyShown'
    BY <1>0, <1>1, <2>4, ShownKept
  <2>v. \A u \in Tabs : tab'[u].verified /\ HoldsKey(u)' => disk.key # 0 \/ (tab[u].verified /\ HoldsKey(u))
    BY <2>1, <2>2 DEF HoldsKey
  <2> QED BY <1>0, <1>1, <2>3, <2>5, <2>v, Quiet DEF Underway
<1>2. CASE loadEnv_portal(t) \/ reloadPage(t) \/ turnPage(t)
  <2>1. CASE loadEnv_portal(t) \/ reloadPage(t)
    <3>1. PICK p \in {Opened, [Opened EXCEPT !.loaded = TRUE]} : tab' = [tab EXCEPT ![t] = p]
      BY <2>1 DEF loadEnv_portal, reloadPage
    <3>2. IsTab(p) /\ p.shown = 0 /\ p.late = {} /\ ~p.verified
      BY <1>b, <3>1 DEF IsTab
    <3> QED BY <1>1, <2>1, <3>1, <3>2 DEF loadEnv_portal, reloadPage
  <2>2. CASE turnPage(t)
    <3>1. PICK n : tab' = [tab EXCEPT ![t] = [tab[t] EXCEPT !.at = n]]
      BY <1>0, <2>2 DEF turnPage, SetupShapes
    <3>2. IsTab([tab[t] EXCEPT !.at = n]) /\ [tab[t] EXCEPT !.at = n].shown = tab[t].shown
          /\ [tab[t] EXCEPT !.at = n].late = tab[t].late /\ [tab[t] EXCEPT !.at = n].verified = tab[t].verified
      BY <1>a DEF IsTab
    <3> QED BY <1>1, <2>2, <3>1, <3>2 DEF turnPage
  <2> QED BY <1>2, <2>1, <2>2
<1>3. CASE loadEnv_sso(t)
  <2>1. readEnvState \in Nat /\ ram.up /\ site = "sso" /\ minted' \in Nat
    BY <1>0, <1>a, <1>3 DEF loadEnv_sso, readEnvState, ensureKek, setupGate, None_, SetupShapes
  <2>2. PICK k \in Nat : /\ ram' = [ram EXCEPT !.pendingKek = k]
                         /\ disk.key # 0 \/ (k = readEnvState /\ (ram.pendingKek # 0 => k = ram.pendingKek))
    BY <1>0, <1>a, <1>3, <2>1 DEF loadEnv_sso, readEnvState, ensureKek, None_
  <2>3. IsRam(ram') /\ ram'.pendingKek = k /\ \A f \in {"up", "complete", "configured", "kek", "mtls"} : ram'[f] = ram[f]
    BY <1>a, <2>2 DEF IsRam
  <2>4. PICK p : /\ IsTab(p) /\ p.shown \in {0, readEnvState} /\ p.late = {} /\ p.verified = ram.configured
                 /\ tab' = [tab EXCEPT ![t] = p]
    <3> DEFINE p == [Opened EXCEPT !.loaded = TRUE, !.verified = ram.configured,
                                   !.shown = IF ram.configured THEN 0 ELSE readEnvState]
    <3>1. IsTab(p) /\ p.shown \in {0, readEnvState} /\ p.late = {} /\ p.verified = ram.configured
      BY <1>b DEF IsTab
    <3> HIDE DEF p
    <3>2. tab' = [tab EXCEPT ![t] = p]
      BY <1>3 DEF loadEnv_sso, None_, p
    <3> QED BY <3>1, <3>2
  <2>a. p.shown \in Nat /\ p.late \subseteq Nat \ {0}
    BY <2>1, <2>4
  <2>5. /\ tab' = [u \in Tabs |-> tab'[u]] /\ tab'[t] = p /\ \A u \in Tabs : u # t => tab'[u] = tab[u]
        /\ \A u \in Tabs : IsTab(tab'[u]) /\ tab'[u].shown \in Nat /\ tab'[u].late \subseteq Nat \ {0}
    BY <1>0, <2>4, <2>a, TabWritten
  <2>6. SetupShapes'
    BY <1>0, <2>1, <2>2, <2>3, <2>5 DEF SetupShapes
  <2>7. p.shown \in {0, Candidate'}
    <3>1. disk.key # 0 => readEnvState = 0
      BY DEF readEnvState, None_
    <3> QED BY <1>0, <2>1, <2>2, <2>3, <2>4, <3>1 DEF Candidate
  <2>8. \A u \in Tabs :
             \/ tab'[u].late = {} /\ tab'[u].shown \in {0, Candidate'}
             \/ /\ tab'[u].late = tab[u].late /\ tab'[u].shown \in {tab[u].shown, Candidate'}
                /\ tab'[u].verified => tab[u].verified \/ post[u].kind = "config"
    BY <2>4, <2>5, <2>7
  <2>p. ram'.pendingKek = ram.pendingKek \/ disk.key # 0 \/ ram.pendingKek = 0
    BY <2>2, <2>3
  <2>9. KeyShown'
    BY <1>0, <2>p, <2>8, ShownKept
  <2>v. \A u \in Tabs : tab'[u].verified /\ HoldsKey(u)' => disk.key # 0 \/ (tab[u].verified /\ HoldsKey(u))
    <3>1. ram.configured => disk.key # 0
      BY <2>1 DEF SetupInv, Usable, Configured
    <3> QED BY <2>4, <2>5, <3>1 DEF HoldsKey
  <2> QED BY <1>0, <2>1, <2>3, <2>6, <2>p, <2>9, <2>v, Quiet
<1>4. CASE regenArrives(t)
  <2>1. PICK k \in tab[t].late : tab' = [tab EXCEPT ![t].shown = k, ![t].late = @ \ {k}]
    BY <1>4 DEF regenArrives
  <2> DEFINE p == [tab[t] EXCEPT !.shown = k, !.late = @ \ {k}]
  <2>2. tab' = [tab EXCEPT ![t] = p]
    BY <1>0, <2>1 DEF SetupShapes
  <2>3. IsTab(p) /\ p.shown = k /\ p.late = tab[t].late \ {k} /\ p.verified = tab[t].verified
    BY <1>a DEF IsTab
  <2> HIDE DEF p
  <2>a. p.shown \in Nat /\ p.late \subseteq Nat \ {0} /\ UNCHANGED <<ram, minted>>
    BY <1>a, <1>4, <2>1, <2>3 DEF regenArrives
  <2>4. /\ tab' = [u \in Tabs |-> tab'[u]] /\ tab'[t] = p /\ \A u \in Tabs : u # t => tab'[u] = tab[u]
        /\ \A u \in Tabs : IsTab(tab'[u]) /\ tab'[u].shown \in Nat /\ tab'[u].late \subseteq Nat \ {0}
    BY <1>0, <2>2, <2>3, <2>a, TabWritten
  <2>5. SetupShapes'
    BY <1>0, <2>a, <2>4 DEF SetupShapes
  <2>6. KeyShown'
    <3>0. Candidate' = Candidate
      BY <1>0, <2>a DEF Candidate
    <3>1. ASSUME KeyShown, shared \cap {"config", "restart", "regenerated", "overtaken"} = {}, NEW u \in Tabs
          PROVE  /\ tab'[u].late \subseteq {Candidate}
                 /\ tab'[u].shown # 0 /\ tab'[u].late = {} => tab'[u].shown = Candidate
                 /\ tab'[u].late # {} => ~tab'[u].verified /\ post[u].kind # "config"
                 /\ post[u].step = "keyed" => disk.key = 0
      <4>1. CASE u = t
        <5>1. tab[t].late \subseteq {Candidate} /\ (post[t].step = "keyed" => disk.key = 0)
          BY <3>1 DEF KeyShown
        <5>2. p.late = {} /\ p.shown = Candidate
          BY <2>1, <2>3, <5>1
        <5> QED BY <2>4, <4>1, <5>1, <5>2
      <4>2. CASE u # t
        BY <2>4, <3>1, <4>2 DEF KeyShown
      <4> QED BY <4>1, <4>2
    <3>2. KeyShown
      BY DEF SetupInv
    <3> QED BY <1>0, <3>0, <3>1, <3>2 DEF KeyShown
  <2>v. \A u \in Tabs : tab'[u].verified /\ HoldsKey(u)' => disk.key # 0 \/ (tab[u].verified /\ HoldsKey(u))
    BY <2>1, <2>3, <2>4 DEF HoldsKey, None_
  <2> QED BY <1>0, <2>5, <2>6, <2>a, <2>v, Quiet DEF Underway
<1> QED BY <1>2, <1>3, <1>4

LEMMA RegenOK ==
    ASSUME SetupInv, NEW t \in Tabs, regen(t) PROVE SetupInv'
<1>0. SetupShapes /\ Underway /\ KeyShown /\ UNCHANGED <<site, disk, db, post>> /\ shared \subseteq shared'
  BY DEF SetupInv, regen
<1>a. IsTab(tab[t]) /\ tab[t].shown \in Nat /\ tab[t].late \subseteq Nat \ {0} /\ minted \in Nat /\ IsRam(ram)
      /\ ram.pendingKek \in Nat
  BY <1>0 DEF SetupShapes
<1>1. /\ site = "sso" /\ ram.up /\ ~tab[t].verified /\ minted' = minted + 1
      /\ ram' = [ram EXCEPT !.pendingKek = minted + 1]
      /\ tab' = [tab EXCEPT ![t].late = IF disk.key = None_ THEN @ \cup {minted + 1} ELSE @]
  BY DEF regen, setupGate
<1>2. /\ \A u \in Tabs : u # t /\ HoldsKey(u) => "regenerated" \in shared'
      /\ \A u \in Tabs : post[u].kind # "none" => "regenerated" \in shared'
      /\ tab[t].late # {} => "overtaken" \in shared'
  BY DEF regen
<1>3. IsRam(ram') /\ ram'.pendingKek = minted + 1 /\ \A f \in {"up", "complete", "configured", "kek", "mtls"} : ram'[f] = ram[f]
  BY <1>a, <1>1 DEF IsRam
<1>4. PICK l : l = IF disk.key = 0 THEN tab[t].late \cup {minted + 1} ELSE tab[t].late
  OBVIOUS
<1> DEFINE p == [tab[t] EXCEPT !.late = l]
<1>5. tab' = [tab EXCEPT ![t] = p]
  BY <1>0, <1>1, <1>4 DEF SetupShapes, None_
<1>6. IsTab(p) /\ p.shown = tab[t].shown /\ p.late = l /\ p.verified = tab[t].verified
  BY <1>a DEF IsTab
<1> HIDE DEF p
<1>b. l \subseteq Nat \ {0}
  BY <1>a, <1>4
<1>7. /\ tab' = [u \in Tabs |-> tab'[u]] /\ tab'[t] = p /\ \A u \in Tabs : u # t => tab'[u] = tab[u]
      /\ \A u \in Tabs : IsTab(tab'[u]) /\ tab'[u].shown \in Nat /\ tab'[u].late \subseteq Nat \ {0}
  BY <1>0, <1>a, <1>b, <1>5, <1>6, TabWritten
<1>8. SetupShapes'
  <2>1. minted' \in Nat /\ ram'.pendingKek \in Nat
    BY <1>a, <1>1, <1>3
  <2> QED BY <1>0, <1>3, <1>7, <2>1 DEF SetupShapes
<1>9. KeyShown'
  <2> SUFFICES ASSUME shared' \cap {"config", "restart", "regenerated", "overtaken"} = {}, NEW u \in Tabs
               PROVE  /\ tab'[u].late \subseteq {Candidate'}
                      /\ tab'[u].shown # 0 /\ tab'[u].late = {} => tab'[u].shown = Candidate'
                      /\ tab'[u].late # {} => ~tab'[u].verified /\ post'[u].kind # "config"
                      /\ post'[u].step = "keyed" => disk'.key = 0
    BY DEF KeyShown
  <2>1. tab[t].late = {} /\ (\A v \in Tabs : v # t => ~HoldsKey(v)) /\ \A v \in Tabs : post[v].kind = "none" /\ post[v].step # "keyed"
    BY <1>0, <1>2 DEF Underway
  <2>2. Candidate' = IF disk.key = 0 THEN minted + 1 ELSE Candidate
    BY <1>0, <1>1, <1>3 DEF Candidate
  <2>3. CASE u # t
    BY <1>0, <1>7, <2>1, <2>3 DEF HoldsKey, None_
  <2>4. CASE u = t
    <3>1. tab[t].shown # 0 => tab[t].shown = Candidate
      BY <1>0, <2>1 DEF KeyShown
    <3>2. tab'[t].shown = tab[t].shown /\ tab'[t].late = l /\ ~tab'[t].verified
      BY <1>1, <1>6, <1>7
    <3>3. l = IF disk.key = 0 THEN {minted + 1} ELSE {}
      BY <1>4, <2>1
    <3> QED BY <1>0, <2>1, <2>2, <2>4, <3>1, <3>2, <3>3
  <2> QED BY <2>3, <2>4
<1>v. \A u \in Tabs : tab'[u].verified /\ HoldsKey(u)' => disk.key # 0 \/ (tab[u].verified /\ HoldsKey(u))
  BY <1>1, <1>6, <1>7 DEF HoldsKey
<1>10. "regenerated" \in shared' \/ \A u \in Tabs : post'[u].kind = "none"
  BY <1>0, <1>2
<1> QED BY <1>0, <1>1, <1>3, <1>8, <1>9, <1>v, <1>10, Quiet

\* A request ends without touching the key, .env or the rows.
LEMMA AnswerOK ==
    ASSUME SetupInv, NEW t \in Tabs, NEW p, IsTab(p), p.shown = tab[t].shown \/ (site = "portal" /\ p.shown = disk.key),
           p.late = tab[t].late, p.verified => tab[t].verified \/ (disk.key # 0 /\ post[t].kind = "config"),
           Answer(t, p), site' = site, db' = db, disk'.key = disk.key, disk'.env = disk.env,
           shared' = shared, minted' \in Nat, IsDisk(disk'), IsMtls(disk'.mtls), IsRam(ram'), IsMtls(ram'.mtls),
           ram'.up, ram.up, ram'.kek = ram.kek, ram'.pendingKek \in {0, ram.pendingKek},
           ram'.pendingKek = ram.pendingKek \/ disk.key # 0,
           ram'.configured => ram.configured \/ Configured, ram.complete => ram'.complete,
           ram'.complete => ram.complete \/ (site = "sso" /\ db.admins # {}) \/ (site = "portal" /\ Configured),
           post[t].step = "committed" => ram'.complete
    PROVE  SetupInv'
<1>0. SetupShapes /\ Underway
  BY DEF SetupInv
<1>1. IsTab(tab[t]) /\ tab[t].shown \in Nat /\ tab[t].late \subseteq Nat \ {0} /\ disk.key \in Nat
      /\ ram.pendingKek \in Nat /\ ram.kek \in Nat
      /\ site \in {"sso", "portal"} /\ IsDb(db) /\ db.sealed \in Nat
  BY <1>0 DEF SetupShapes
<1>2. PICK q \in {p, tab[t]} : tab' = [tab EXCEPT ![t] = q]
  BY DEF Answer
<1>a. /\ IsTab(q)
      /\ q.shown = tab[t].shown \/ (site = "portal" /\ q.shown = disk.key)
      /\ q.late = tab[t].late /\ (q.verified => tab[t].verified \/ (disk.key # 0 /\ post[t].kind = "config"))
  BY <1>1, <1>2
<1>b. q.shown \in Nat /\ q.late \subseteq Nat \ {0} /\ ram'.pendingKek \in Nat /\ IsTab(q)
  BY <1>1, <1>2, <1>a
<1>3. post' = [post EXCEPT ![t] = NoPost]
  BY DEF Answer
<1>4. /\ tab' = [u \in Tabs |-> tab'[u]] /\ tab'[t] = q /\ \A u \in Tabs : u # t => tab'[u] = tab[u]
      /\ \A u \in Tabs : IsTab(tab'[u]) /\ tab'[u].shown \in Nat /\ tab'[u].late \subseteq Nat \ {0}
  BY <1>0, <1>2, <1>b, TabWritten
<1>5. NoPost.kek \in Nat
  BY NoPostFits
<1>6. /\ post' = [u \in Tabs |-> post'[u]] /\ post'[t] = NoPost /\ \A u \in Tabs : u # t => post'[u] = post[u]
      /\ \A u \in Tabs : IsPost(post'[u]) /\ post'[u].kind \in Kinds /\ post'[u].step \in Stages /\ post'[u].kek \in Nat
  BY <1>0, <1>3, <1>5, NoPostFits, PostWritten
<1>7. SetupShapes'
  <2>1. site' \in {"sso", "portal"} /\ minted' \in Nat /\ IsDb(db') /\ db'.sealed \in Nat /\ disk'.key \in Nat
        /\ ram'.kek \in Nat /\ ram'.pendingKek \in Nat
    BY <1>1, <1>b
  <2> QED BY <2>1, <1>4, <1>6 DEF SetupShapes
<1>9. \A u \in Tabs : post'[u] = post[u] \/ post'[u] = NoPost
  BY <1>6
<1>8. KeyShown'
  <2>1. site = "portal" => Candidate' = disk.key
    BY DEF Candidate
  <2>2. \A u \in Tabs :
             \/ tab'[u].late = {} /\ tab'[u].shown \in {0, Candidate'}
             \/ /\ tab'[u].late = tab[u].late /\ tab'[u].shown \in {tab[u].shown, Candidate'}
                /\ tab'[u].verified => tab[u].verified \/ post[u].kind = "config"
    BY <1>4, <1>a, <2>1
  <2> QED BY <1>9, <2>2, ShownKept
<1>v. \A u \in Tabs : tab'[u].verified /\ HoldsKey(u)' => disk.key # 0 \/ (tab[u].verified /\ HoldsKey(u))
  BY <1>4, <1>a DEF HoldsKey, None_
<1>10. \A u \in Tabs : post[u].step = "committed" => post'[u] = post[u] \/ ram'.complete
  BY <1>6
<1> QED BY <1>7, <1>8, <1>v, <1>9, <1>10, Quiet

\* Refusals, the adopted configuration, the completed wizard.
LEMMA RequestsEndOK ==
    ASSUME SetupInv, NEW t \in Tabs,
           \/ Refused(t) \/ applyAndPersist(t) \/ markComplete_sso(t) \/ markComplete_portal(t)
           \/ (ensureClientKey(t) /\ disk.key # 0)
    PROVE  SetupInv'
<1>0. SetupShapes /\ Underway /\ Usable /\ UNCHANGED <<site, db, shared, minted>>
  BY DEF SetupInv, Refused, applyAndPersist, markComplete_sso, markComplete_portal, ensureClientKey, None_
<1>a. IsTab(tab[t]) /\ tab[t].shown \in Nat /\ minted \in Nat /\ IsRam(ram) /\ ram.pendingKek \in Nat /\ IsDisk(disk)
      /\ IsMtls(disk.mtls) /\ IsMtls(ram.mtls) /\ IsPost(post[t]) /\ post[t].kind \in Kinds
  BY <1>0 DEF SetupShapes
<1>b. post[t].kind # "none"
  BY <1>0 DEF Refused, applyAndPersist, markComplete_sso, markComplete_portal, ensureClientKey, configRefused_sso,
              configRefused_portal, finishRefused_sso, finishRefused_portal, requestFails, Underway
<1>c. ram.up
  BY <1>0, <1>b DEF Underway
<1>1. CASE Refused(t)
  <2>1. PICK at : Answer(t, [tab[t] EXCEPT !.at = at])
    BY <1>1 DEF Refused
  <2>2. UNCHANGED <<disk, ram>>
    BY <1>1 DEF Refused
  <2> DEFINE p == [tab[t] EXCEPT !.at = at]
  <2>3. IsTab(p) /\ p.shown = tab[t].shown /\ p.late = tab[t].late /\ p.verified = tab[t].verified /\ Answer(t, p)
    BY <1>a, <2>1 DEF IsTab
  <2> HIDE DEF p
  <2>4. post[t].step # "committed"
    BY <1>0, <1>1 DEF Refused, configRefused_sso,
              configRefused_portal, finishRefused_sso, finishRefused_portal, requestFails, Underway
  <2> QED BY <1>0, <1>a, <1>c, <2>2, <2>3, <2>4, AnswerOK
<1>2. CASE applyAndPersist(t)
  <2> DEFINE p == [tab[t] EXCEPT !.verified = TRUE]
  <2>1. IsTab(p) /\ p.shown = tab[t].shown /\ p.late = tab[t].late /\ Answer(t, p)
    BY <1>a, <1>2 DEF IsTab, applyAndPersist
  <2> HIDE DEF p
  <2>2. /\ site = "sso" /\ Is(t, "config", "persisted") /\ disk' = disk
        /\ ram' = [ram EXCEPT !.pendingKek = 0, !.configured = TRUE]
    BY <1>2 DEF applyAndPersist, Is, None_
  <2>3. IsRam(ram') /\ ram'.pendingKek = 0 /\ \A f \in {"up", "complete", "kek", "mtls"} : ram'[f] = ram[f]
    BY <1>a, <2>2 DEF IsRam
  <2>4. Configured
    BY <1>0, <2>2 DEF Underway, Configured
  <2>5. disk.key # 0
    BY <2>4 DEF Configured
  <2>6. post[t].step # "committed" /\ post[t].kind = "config"
    BY <2>2 DEF Is
  <2> QED BY <1>0, <1>a, <1>c, <2>1, <2>2, <2>3, <2>4, <2>5, <2>6, AnswerOK
<1>3. CASE markComplete_sso(t) \/ markComplete_portal(t)
  <2>1. Completed /\ \E at : Answer(t, [tab[t] EXCEPT !.at = at])
    BY <1>3 DEF markComplete_sso, markComplete_portal
  <2>2. PICK at : Answer(t, [tab[t] EXCEPT !.at = at])
    BY <2>1
  <2> DEFINE p == [tab[t] EXCEPT !.at = at]
  <2>3. IsTab(p) /\ p.shown = tab[t].shown /\ p.late = tab[t].late /\ p.verified = tab[t].verified /\ Answer(t, p)
    BY <1>a, <2>2 DEF IsTab
  <2> HIDE DEF p
  <2>4. IsRam(ram') /\ ram'.complete /\ \A f \in {"up", "pendingKek", "kek", "mtls"} : ram'[f] = ram[f]
    BY <1>a, <2>1 DEF Completed, IsRam
  <2>5. IsDisk(disk') /\ \A f \in {"env", "key", "mtls"} : disk'[f] = disk[f]
    BY <1>a, <2>1 DEF Completed, IsDisk
  <2>6. (site = "sso" /\ db.admins # {} /\ Configured) \/ (site = "portal" /\ Configured)
    <3>1. post[t].step = "committed" => site = "sso" /\ db.admins # {} /\ Configured
      BY <1>0 DEF Underway
    <3> QED BY <1>3, <3>1 DEF markComplete_sso, markComplete_portal, isConfigured_portal, Configured, None_
  <2> QED BY <1>0, <1>a, <1>c, <2>3, <2>4, <2>5, <2>6, AnswerOK
<1>4. CASE ensureClientKey(t) /\ disk.key # 0
  <2> DEFINE p == [tab[t] EXCEPT !.verified = TRUE, !.shown = disk.key]
  <2>1. IsTab(p) /\ p.shown = disk.key /\ p.late = tab[t].late /\ Answer(t, p)
    BY <1>a, <1>4 DEF IsTab, ensureClientKey, None_
  <2> HIDE DEF p
  <2>2. site = "portal" /\ post[t].kind = "config" /\ post[t].step # "committed" /\ UNCHANGED <<disk, ram>>
    BY <1>4 DEF ensureClientKey
  <2> QED BY <1>0, <1>a, <1>c, <1>4, <2>1, <2>2, AnswerOK
<1> QED BY <1>1, <1>2, <1>3, <1>4

\* The certificate page: requests, installed certificates, resets.
LEMMA CertificateOK ==
    ASSUME SetupInv, NEW t \in Tabs, newRequest(t) \/ installLeaf(t) \/ certReset(t)
    PROVE  SetupInv'
<1>0. SetupShapes /\ Underway /\ UNCHANGED <<site, db, shared>>
  BY DEF SetupInv, newRequest, installLeaf, certReset
<1>a. IsTab(tab[t]) /\ tab[t].shown \in Nat /\ tab[t].late \subseteq Nat \ {0} /\ minted \in Nat /\ IsRam(ram)
      /\ ram.pendingKek \in Nat /\ IsDisk(disk) /\ IsMtls(disk.mtls) /\ IsMtls(ram.mtls)
  BY <1>0 DEF SetupShapes
<1>1. PICK m : IsMtls(m) /\ write(m)
  <2>1. CASE newRequest(t)
    <3>1. IsMtls([ram.mtls EXCEPT !.pending = minted + 1])
      BY <1>a DEF IsMtls
    <3> QED BY <2>1, <3>1 DEF newRequest
  <2>2. CASE installLeaf(t)
    <3>1. PICK key : write([key |-> key, pending |-> None_, cert |-> key, enforce |-> TRUE])
      BY <2>2 DEF installLeaf
    <3>2. IsMtls([key |-> key, pending |-> None_, cert |-> key, enforce |-> TRUE])
      BY DEF IsMtls
    <3> QED BY <3>1, <3>2
  <2>3. CASE certReset(t)
    <3>1. IsMtls(NoMtls)
      BY DEF IsMtls, NoMtls
    <3> QED BY <2>3, <3>1 DEF certReset
  <2> QED BY <2>1, <2>2, <2>3
<1>2. ram' = [ram EXCEPT !.mtls = m] /\ disk' = [disk EXCEPT !.mtls = m]
  BY <1>1 DEF write
<1>3. /\ IsRam(ram') /\ ram'.mtls = m /\ \A f \in {"up", "complete", "configured", "pendingKek", "kek"} : ram'[f] = ram[f]
      /\ IsDisk(disk') /\ disk'.mtls = m /\ \A f \in {"env", "key", "cut", "token"} : disk'[f] = disk[f]
  BY <1>a, <1>2 DEF IsRam, IsDisk
<1> HIDE <1>2
<1>4. CASE newRequest(t)
  <2> DEFINE p == [tab[t] EXCEPT !.csr = minted + 1]
  <2>1. /\ IsTab(p) /\ p.shown = tab[t].shown /\ p.late = tab[t].late /\ p.verified = tab[t].verified
        /\ Answer(t, p) /\ post[t].kind = "csr" /\ minted' \in Nat
    BY <1>a, <1>4 DEF IsTab, newRequest
  <2> HIDE DEF p
  <2>2. post[t].step # "committed" /\ ram.up
    BY <1>0, <2>1 DEF Underway
  <2> QED BY <1>0, <1>a, <1>1, <1>3, <2>1, <2>2, AnswerOK
<1>5. CASE UNCHANGED <<post, minted>> /\ \E p : /\ IsTab(p) /\ tab' = [tab EXCEPT ![t] = p]
             /\ p.shown = tab[t].shown /\ p.late = tab[t].late /\ p.verified = tab[t].verified
  <2>1. PICK p : /\ IsTab(p) /\ tab' = [tab EXCEPT ![t] = p]
                 /\ p.shown = tab[t].shown /\ p.late = tab[t].late /\ p.verified = tab[t].verified
    BY <1>5
  <2>2. p.shown \in Nat /\ p.late \subseteq Nat \ {0}
    BY <1>a, <2>1
  <2>3. /\ tab' = [u \in Tabs |-> tab'[u]] /\ tab'[t] = p /\ \A u \in Tabs : u # t => tab'[u] = tab[u]
        /\ \A u \in Tabs : IsTab(tab'[u]) /\ tab'[u].shown \in Nat /\ tab'[u].late \subseteq Nat \ {0}
    BY <1>0, <2>1, <2>2, TabWritten
  <2>4. SetupShapes'
    BY <1>0, <1>1, <1>3, <1>5, <2>3 DEF SetupShapes
  <2>5. \A u \in Tabs :
             \/ tab'[u].late = {} /\ tab'[u].shown \in {0, Candidate'}
             \/ /\ tab'[u].late = tab[u].late /\ tab'[u].shown \in {tab[u].shown, Candidate'}
                /\ tab'[u].verified => tab[u].verified \/ post[u].kind = "config"
    BY <2>1, <2>3
  <2>k. KeyShown'
    BY <1>0, <1>3, <1>5, <2>5, ShownKept
  <2>v. \A u \in Tabs : tab'[u].verified /\ HoldsKey(u)' => disk.key # 0 \/ (tab[u].verified /\ HoldsKey(u))
    BY <2>1, <2>3 DEF HoldsKey
  <2>6. ram'.up \/ ram'.pendingKek = 0
    BY <1>0, <1>3 DEF Underway
  <2> QED BY <1>0, <1>3, <1>5, <2>4, <2>k, <2>v, <2>6, Quiet
<1>6. CASE installLeaf(t)
  <2>1. IsTab(tab[t]) /\ tab' = [tab EXCEPT ![t] = tab[t]]
    BY <1>0, <1>a, <1>6 DEF installLeaf, SetupShapes
  <2> QED BY <1>5, <1>6, <2>1 DEF installLeaf
<1>7. CASE certReset(t)
  <2>0. PICK csr : tab' = [tab EXCEPT ![t].csr = csr]
    BY <1>7 DEF certReset
  <2>1. PICK p : p = [tab[t] EXCEPT !.csr = csr]
    OBVIOUS
  <2>2. IsTab(p) /\ p.shown = tab[t].shown /\ p.late = tab[t].late /\ p.verified = tab[t].verified
    BY <1>a, <2>1 DEF IsTab
  <2>3. tab' = [tab EXCEPT ![t] = p]
    BY <1>0, <2>0, <2>1 DEF SetupShapes
  <2> QED BY <1>5, <1>7, <2>2, <2>3 DEF certReset
<1> QED BY <1>4, <1>6, <1>7

\* A page sends a request.
LEMMA SendOK ==
    ASSUME SetupInv, NEW t \in Tabs, NEW k \in Kinds \ {"none"}, NEW name, Send(t, k, name)
    PROVE  SetupInv'
<1>0. SetupShapes /\ Underway /\ Usable /\ OneOperator /\ SealedReadable /\ KeyToWrite /\ KeyShown
  BY DEF SetupInv
<1>1. /\ UNCHANGED <<site, disk, db, ram, tab, minted>> /\ ram.up /\ ~ram.complete /\ post[t].kind = "none"
      /\ shared \subseteq shared' /\ (\A u \in Tabs : post[u].kind = k => k \in shared')
      /\ k = "config" /\ tab[t].late # {} => "overtaken" \in shared'
  BY DEF Send, setupGate
<1>2. PICK p : p = [kind |-> k, step |-> "received", kek |-> None_, name |-> name]
  OBVIOUS
<1>3. IsPost(p) /\ p.kind = k /\ p.step = "received" /\ p.kek = 0 /\ p.kind \in Kinds /\ p.step \in Stages
  BY <1>2 DEF IsPost, Kinds, Stages, None_
<1>4. post' = [post EXCEPT ![t] = p]
  BY <1>2 DEF Send
<1> HIDE <1>2
<1>a. p.kek \in Nat
  BY <1>3
<1>5. /\ post' = [u \in Tabs |-> post'[u]] /\ post'[t] = p /\ \A u \in Tabs : u # t => post'[u] = post[u]
      /\ \A u \in Tabs : IsPost(post'[u]) /\ post'[u].kind \in Kinds /\ post'[u].step \in Stages /\ post'[u].kek \in Nat
  BY <1>0, <1>3, <1>4, <1>a, PostWritten
<1>6. SetupShapes'
  BY <1>0, <1>1, <1>5 DEF SetupShapes
<1>7. Underway' /\ Usable' /\ SealedReadable'
  BY <1>0, <1>1, <1>3, <1>5 DEF Underway, Usable, SealedReadable, Is, Configured, HoldsKey
<1>8. OneOperator'
  <2> SUFFICES ASSUME site = "sso", shared' \cap {"finish", "outage", "unanswered", "torn"} = {}
               PROVE  /\ Alone("finish")'
                      /\ db.admins # {} =>
                           /\ \E n \in db.admins : db.admins = {n}
                           /\ \A u \in Tabs : ~Is(u, "finish", "received")'
                           /\ ~ram.up \/ ram.complete \/ \E u \in Tabs : post'[u].step = "committed"
    BY <1>1 DEF OneOperator
  <2>1. shared \cap {"finish", "outage", "unanswered", "torn"} = {} /\ \A u \in Tabs : post[u].kind = k => k # "finish"
    BY <1>1
  <2>2. Alone("finish")'
    BY <1>0, <1>3, <1>5, <2>1 DEF OneOperator, Alone
  <2>3. ASSUME db.admins # {}
        PROVE  /\ \E n \in db.admins : db.admins = {n}
               /\ \A u \in Tabs : ~Is(u, "finish", "received")'
               /\ \E u \in Tabs : post'[u].step = "committed"
    <3>1. PICK u \in Tabs : post[u].step = "committed"
      BY <1>0, <1>1, <2>1, <2>3 DEF OneOperator
    <3>2. post[u].kind = "finish" /\ u # t /\ k # "finish"
      BY <1>0, <1>1, <2>1, <3>1 DEF Underway
    <3>3. \A v \in Tabs : ~Is(v, "finish", "received")'
      BY <1>0, <1>3, <1>5, <2>1, <2>3, <3>2 DEF OneOperator, Is
    <3> QED BY <1>0, <1>5, <2>1, <2>3, <3>1, <3>2, <3>3 DEF OneOperator
  <2> QED BY <2>2, <2>3
<1>9. KeyToWrite'
  <2>1. "config" \notin shared' => Alone("config")'
    BY <1>0, <1>1, <1>3, <1>5 DEF KeyToWrite, Alone
  <2>2. \A u \in Tabs : post'[u].step = "captured" => post'[u] = post[u]
    BY <1>3, <1>5
  <2> QED BY <1>0, <1>1, <2>1, <2>2 DEF KeyToWrite
<1>10. KeyShown'
  BY <1>0, <1>1, <1>3, <1>5 DEF KeyShown, Candidate
<1> QED BY <1>6, <1>7, <1>8, <1>9, <1>10 DEF SetupInv

\* The steps of a save: the key is chosen, .env is written, the client key made.
LEMMA CaptureOK ==
    ASSUME SetupInv, NEW t \in Tabs, captureKek(t) PROVE SetupInv'
<1>0. SetupShapes /\ Underway /\ Usable /\ OneOperator /\ SealedReadable /\ KeyToWrite /\ KeyShown
  BY DEF SetupInv
<1>a. IsPost(post[t]) /\ post[t].kind \in Kinds /\ IsRam(ram) /\ minted \in Nat /\ ram.pendingKek \in Nat /\ disk.key \in Nat
  BY <1>0 DEF SetupShapes
<1>1. /\ UNCHANGED <<site, disk, db, tab, shared>> /\ site = "sso" /\ Is(t, "config", "received") /\ minted' \in Nat
  BY <1>a DEF captureKek, Is
<1>2. PICK kek : /\ kek = IF disk.key # 0 THEN disk.key ELSE ensureKek
                 /\ ram' = [ram EXCEPT !.pendingKek = IF disk.key # 0 THEN @ ELSE kek]
                 /\ post' = [post EXCEPT ![t].step = "captured", ![t].kek = kek]
  BY DEF captureKek, None_
<1>3. /\ kek \in Nat /\ kek # 0 /\ (disk.key # 0 => kek = disk.key)
      /\ disk.key = 0 => (ram.pendingKek # 0 => kek = ram.pendingKek)
  BY <1>a, <1>2 DEF ensureKek, None_
<1>4. PICK pk : pk = IF disk.key # 0 THEN ram.pendingKek ELSE kek
  OBVIOUS
<1>5. IsRam(ram') /\ ram'.pendingKek = pk /\ pk \in Nat
      /\ \A f \in {"up", "complete", "configured", "kek", "mtls"} : ram'[f] = ram[f]
  BY <1>a, <1>2, <1>3, <1>4 DEF IsRam
<1> DEFINE p == [post[t] EXCEPT !.step = "captured", !.kek = kek]
<1>6. post' = [post EXCEPT ![t] = p]
  BY <1>0, <1>2 DEF SetupShapes
<1>7. IsPost(p) /\ p.step = "captured" /\ p.kek = kek /\ p.kind = "config" /\ p.kind \in Kinds /\ p.step \in Stages /\ p.kek \in Nat
  BY <1>a, <1>1, <1>3 DEF IsPost, Stages, Is
<1> HIDE DEF p
<1> HIDE <1>2
<1>8. /\ post' = [u \in Tabs |-> post'[u]] /\ post'[t] = p /\ \A u \in Tabs : u # t => post'[u] = post[u]
      /\ \A u \in Tabs : IsPost(post'[u]) /\ post'[u].kind \in Kinds /\ post'[u].step \in Stages /\ post'[u].kek \in Nat
  BY <1>0, <1>6, <1>7, PostWritten
<1>9. SetupShapes'
  BY <1>0, <1>1, <1>5, <1>8 DEF SetupShapes
<1>10. ram.up
  BY <1>0, <1>1 DEF Underway, Is
<1>11. Underway' /\ Usable' /\ SealedReadable'
  BY <1>0, <1>1, <1>3, <1>5, <1>7, <1>8, <1>10 DEF Underway, Usable, SealedReadable, Is, Configured, HoldsKey
<1>12. \A u \in Tabs : post'[u].kind = post[u].kind /\ (post[u].step = "committed" => post'[u] = post[u])
  BY <1>1, <1>7, <1>8 DEF Is
<1>13. OneOperator'
  <2>1. \A u \in Tabs : Is(u, "finish", "received")' => Is(u, "finish", "received")
    BY <1>7, <1>8 DEF Is
  <2> QED BY <1>0, <1>1, <1>5, <1>12, <2>1 DEF OneOperator, Alone
<1>14. KeyToWrite'
  <2>1. "config" \notin shared' => Alone("config")'
    BY <1>0, <1>1, <1>12 DEF KeyToWrite, Alone
  <2>2. ASSUME ~({"config", "regenerated"} \subseteq shared), NEW u \in Tabs, post'[u].step = "captured"
        PROVE  IF disk.key # 0 THEN post'[u].kek = disk.key
               ELSE "regenerated" \notin shared => post'[u].kek = ram'.pendingKek
    <3>1. CASE u = t
      BY <1>3, <1>4, <1>5, <1>7, <1>8, <3>1
    <3>2. CASE u # t
      <4>1. post'[u] = post[u] /\ post[u].kek # 0 /\ post[u].step = "captured"
        BY <1>0, <1>8, <2>2, <3>2 DEF Underway
      <4>2. IF disk.key # 0 THEN post[u].kek = disk.key
            ELSE "regenerated" \notin shared => post[u].kek = ram.pendingKek
        BY <1>0, <2>2, <4>1 DEF KeyToWrite
      <4> QED BY <1>3, <1>4, <1>5, <4>1, <4>2
    <3> QED BY <3>1, <3>2
  <2> QED BY <1>1, <2>1, <2>2 DEF KeyToWrite
<1>15. KeyShown'
  <2> SUFFICES ASSUME shared \cap {"config", "restart", "regenerated", "overtaken"} = {}, NEW u \in Tabs
               PROVE  /\ tab[u].late \subseteq {Candidate'}
                      /\ tab[u].shown # 0 /\ tab[u].late = {} => tab[u].shown = Candidate'
                      /\ tab[u].late # {} => ~tab[u].verified /\ post'[u].kind # "config"
                      /\ post'[u].step = "keyed" => disk.key = 0
    BY <1>1 DEF KeyShown
  <2>1. /\ tab[u].late \subseteq {Candidate}
        /\ tab[u].shown # 0 /\ tab[u].late = {} => tab[u].shown = Candidate
        /\ tab[u].late # {} => ~tab[u].verified /\ post[u].kind # "config"
        /\ post[u].step = "keyed" => disk.key = 0
    BY <1>0, <1>1 DEF KeyShown
  <2>2. Candidate' = Candidate \/ Candidate = 0
    BY <1>1, <1>3, <1>4, <1>5 DEF Candidate
  <2>3. tab[u].late \subseteq Nat \ {0}
    BY <1>0 DEF SetupShapes
  <2>4. post'[u].kind = post[u].kind /\ (post'[u].step = "keyed" => post[u].step = "keyed")
    BY <1>7, <1>8, <1>12
  <2> QED BY <2>1, <2>2, <2>3, <2>4
<1> QED BY <1>9, <1>11, <1>13, <1>14, <1>15 DEF SetupInv

LEMMA SchemaOK ==
    ASSUME SetupInv, NEW t \in Tabs, applySchema(t) PROVE SetupInv'
<1>0. SetupShapes /\ Underway /\ UNCHANGED <<site, disk, ram, tab, post, minted, shared>>
  BY DEF SetupInv, applySchema
<1>1. IsDb(db') /\ db'.admins = db.admins /\ db'.sealed = db.sealed
  BY <1>0 DEF applySchema, SetupShapes, IsDb
<1>2. SetupShapes'
  BY <1>0, <1>1 DEF SetupShapes
<1>3. KeyShown'
  BY <1>0 DEF SetupInv, KeyShown, Candidate
<1>4. \A u \in Tabs : HoldsKey(u)' = HoldsKey(u)
  BY <1>0 DEF HoldsKey
<1> QED BY <1>0, <1>1, <1>2, <1>3, <1>4, Quiet DEF Underway

LEMMA EnvWrittenOK ==
    ASSUME SetupInv, NEW t \in Tabs, upsertEnv_sso(t) PROVE SetupInv'
<1>0. SetupShapes /\ Underway /\ Usable /\ OneOperator /\ SealedReadable /\ KeyToWrite /\ KeyShown
  BY DEF SetupInv
<1>a. IsPost(post[t]) /\ post[t].kind \in Kinds /\ post[t].kek \in Nat /\ IsRam(ram) /\ IsDisk(disk) /\ IsDb(db)
  BY <1>0 DEF SetupShapes
<1>1. /\ UNCHANGED <<site, tab, shared, minted>> /\ Is(t, "config", "captured")
  BY DEF upsertEnv_sso, Is
<1>2. site = "sso" /\ post[t].kek # 0 /\ ram.up
  BY <1>0, <1>1 DEF Underway, Is
<1>3. PICK k \in Nat : k = post[t].kek
  BY <1>a
<1>4. /\ disk' = [disk EXCEPT !.env = TRUE, !.key = k, !.cut = @ \ {"env"}] /\ db' = db /\ ram' = [ram EXCEPT !.kek = k]
      /\ post' = [post EXCEPT ![t].step = "persisted"]
  BY <1>3 DEF upsertEnv_sso
<1>5. /\ IsDisk(disk') /\ disk'.env /\ disk'.key = k /\ disk'.mtls = disk.mtls
      /\ IsDb(db') /\ db'.admins = db.admins /\ db'.sealed = db.sealed
      /\ IsRam(ram') /\ ram'.kek = k /\ \A f \in {"up", "complete", "configured", "pendingKek", "mtls"} : ram'[f] = ram[f]
  BY <1>a, <1>4 DEF IsDisk, IsDb, IsRam
<1> DEFINE p == [post[t] EXCEPT !.step = "persisted"]
<1>6. post' = [post EXCEPT ![t] = p]
  BY <1>0, <1>4 DEF SetupShapes
<1>7. IsPost(p) /\ p.step = "persisted" /\ p.kind = "config" /\ p.kind \in Kinds /\ p.step \in Stages /\ p.kek \in Nat
  BY <1>a, <1>1 DEF IsPost, Stages, Is
<1> HIDE DEF p
<1> HIDE <1>4
<1>8. /\ post' = [u \in Tabs |-> post'[u]] /\ post'[t] = p /\ \A u \in Tabs : u # t => post'[u] = post[u]
      /\ \A u \in Tabs : IsPost(post'[u]) /\ post'[u].kind \in Kinds /\ post'[u].step \in Stages /\ post'[u].kek \in Nat
  BY <1>0, <1>6, <1>7, PostWritten
<1>9. SetupShapes'
  <2>1. ram.pendingKek \in Nat /\ IsMtls(disk.mtls) /\ IsMtls(ram.mtls) /\ db.sealed \in Nat
    BY <1>0 DEF SetupShapes
  <2> QED BY <1>0, <1>1, <1>5, <1>8, <2>1 DEF SetupShapes
<1>10. Underway' /\ Usable'
  BY <1>0, <1>1, <1>2, <1>3, <1>5, <1>7, <1>8 DEF Underway, Usable, Is, Configured, HoldsKey
<1>11. \A u \in Tabs : post'[u].kind = post[u].kind /\ (post[u].step = "committed" => post'[u] = post[u])
  BY <1>1, <1>7, <1>8 DEF Is
<1>12. OneOperator'
  <2>1. \A u \in Tabs : Is(u, "finish", "received")' => Is(u, "finish", "received")
    BY <1>7, <1>8 DEF Is
  <2> QED BY <1>0, <1>1, <1>5, <1>11, <2>1 DEF OneOperator, Alone
<1>13. ~({"config", "regenerated"} \subseteq shared) =>
          IF disk.key # 0 THEN k = disk.key ELSE "regenerated" \notin shared => k = ram.pendingKek
  BY <1>0, <1>1, <1>3 DEF KeyToWrite, Is
<1>14. SealedReadable'
  BY <1>0, <1>1, <1>5, <1>13 DEF SealedReadable, None_
<1>15. KeyToWrite'
  <2>1. "config" \notin shared' => Alone("config")'
    BY <1>0, <1>1, <1>11 DEF KeyToWrite, Alone
  <2>2. ASSUME ~({"config", "regenerated"} \subseteq shared), NEW u \in Tabs, post'[u].step = "captured"
        PROVE  post'[u].kek = k
    <3>1. u # t /\ post'[u] = post[u] /\ post[u].kind = "config" /\ post[u].step = "captured"
      BY <1>0, <1>7, <1>8, <2>2 DEF Underway
    <3>2. "config" \in shared
      BY <1>0, <1>1, <3>1 DEF KeyToWrite, Alone, Is
    <3>3. IF disk.key # 0 THEN post[u].kek = disk.key
          ELSE "regenerated" \notin shared => post[u].kek = ram.pendingKek
      BY <1>0, <2>2, <3>1 DEF KeyToWrite
    <3> QED BY <1>13, <2>2, <3>1, <3>2, <3>3
  <2> QED BY <1>1, <1>2, <1>3, <1>5, <2>1, <2>2 DEF KeyToWrite
<1>16. KeyShown'
  <2>1. \A u \in Tabs : post'[u].step # "keyed"
    BY <1>0, <1>2, <1>7, <1>8 DEF Underway
  <2>2. Candidate' = k
    BY <1>1, <1>2, <1>3, <1>5 DEF Candidate
  <2>3. shared \cap {"config", "restart", "regenerated", "overtaken"} = {} => k = Candidate
    BY <1>2, <1>13 DEF Candidate
  <2> QED BY <1>0, <1>1, <1>11, <2>1, <2>2, <2>3 DEF KeyShown
<1> QED BY <1>9, <1>10, <1>12, <1>14, <1>15, <1>16 DEF SetupInv

LEMMA PortalSaveOK ==
    ASSUME SetupInv, NEW t \in Tabs, upsertEnv_portal(t) \/ (ensureClientKey(t) /\ disk.key = 0)
    PROVE  SetupInv'
<1>0. SetupShapes /\ Underway /\ Usable /\ OneOperator /\ SealedReadable /\ KeyToWrite /\ KeyShown
  BY DEF SetupInv
<1>a. IsPost(post[t]) /\ post[t].kind \in Kinds /\ post[t].kek \in Nat /\ IsDisk(disk) /\ minted \in Nat
  BY <1>0 DEF SetupShapes
<1>1. /\ UNCHANGED <<site, db, ram, tab, shared>> /\ site = "portal" /\ post[t].kind = "config"
      /\ minted' \in Nat
  BY <1>a DEF upsertEnv_portal, ensureClientKey, None_
<1>2. IsDisk(disk') /\ disk'.key = disk.key /\ disk'.mtls = disk.mtls /\ (disk.env => disk'.env)
  <2>1. CASE upsertEnv_portal(t)
    <3>1. disk' = [disk EXCEPT !.env = TRUE, !.cut = @ \ {"env"}]
      BY <2>1 DEF upsertEnv_portal
    <3> QED BY <1>a, <3>1 DEF IsDisk
  <2>2. CASE ensureClientKey(t)
    BY <1>a, <2>2 DEF ensureClientKey
  <2> QED BY <2>1, <2>2
<1>3. PICK p : /\ post' = [post EXCEPT ![t] = p] /\ IsPost(p) /\ p.kind = "config" /\ p.kek \in Nat /\ disk'.env
               /\ p.step = "persisted" \/ (p.step = "keyed" /\ p.kek # 0 /\ disk.key = 0)
  <2>1. CASE upsertEnv_portal(t)
    <3> DEFINE p == [post[t] EXCEPT !.step = "persisted"]
    <3>1. post' = [post EXCEPT ![t] = p]
      BY <1>0, <2>1 DEF SetupShapes, upsertEnv_portal
    <3>2. IsPost(p) /\ p.kind = "config" /\ p.kek = post[t].kek /\ p.step = "persisted"
      BY <1>a, <1>1 DEF IsPost
    <3>3. disk'.env
      BY <1>a, <2>1 DEF upsertEnv_portal, IsDisk
    <3> HIDE DEF p
    <3> QED BY <1>a, <3>1, <3>2, <3>3
  <2>2. CASE ensureClientKey(t) /\ disk.key = 0
    <3> DEFINE p == [post[t] EXCEPT !.step = "keyed", !.kek = minted + 1]
    <3>1. post' = [post EXCEPT ![t] = p]
      BY <1>0, <2>2 DEF SetupShapes, ensureClientKey, None_
    <3>2. IsPost(p) /\ p.kind = "config" /\ p.kek = minted + 1 /\ p.step = "keyed"
      BY <1>a, <1>1 DEF IsPost
    <3>3. disk'.env
      BY <1>0, <2>2 DEF ensureClientKey, Underway, Is
    <3>4. p.kek \in Nat /\ p.kek # 0
      BY <1>a, <3>2
    <3> HIDE DEF p
    <3> QED BY <2>2, <3>1, <3>2, <3>3, <3>4
  <2> QED BY <2>1, <2>2
<1>4. p.kind \in Kinds /\ p.step \in Stages
  BY <1>3 DEF Kinds, Stages
<1>5. /\ post' = [u \in Tabs |-> post'[u]] /\ post'[t] = p /\ \A u \in Tabs : u # t => post'[u] = post[u]
      /\ \A u \in Tabs : IsPost(post'[u]) /\ post'[u].kind \in Kinds /\ post'[u].step \in Stages /\ post'[u].kek \in Nat
  BY <1>0, <1>3, <1>4, PostWritten
<1>6. SetupShapes'
  BY <1>0, <1>1, <1>2, <1>5 DEF SetupShapes
<1>7. Underway'
  BY <1>0, <1>1, <1>2, <1>3, <1>5 DEF Underway, Is, HoldsKey, Configured
<1>8. Usable' /\ SealedReadable' /\ OneOperator'
  BY <1>0, <1>1, <1>2 DEF Usable, Configured, SealedReadable, OneOperator, None_
<1>9. KeyToWrite'
  BY <1>0, <1>1, <1>7, <1>5, <1>3 DEF KeyToWrite, Alone, Underway
<1>10. KeyShown'
  <2>1. \A u \in Tabs : post'[u].kind = post[u].kind /\ (post'[u].step = "keyed" => post[u].step = "keyed" \/ disk.key = 0)
    BY <1>1, <1>3, <1>5
  <2>2. Candidate' = Candidate
    BY <1>1, <1>2 DEF Candidate
  <2> QED BY <1>0, <1>1, <1>2, <2>1, <2>2 DEF KeyShown
<1> QED BY <1>6, <1>7, <1>8, <1>9, <1>10 DEF SetupInv

LEMMA ClientKeyOK ==
    ASSUME SetupInv, NEW t \in Tabs, writeClientKey(t) PROVE SetupInv'
<1>0. SetupShapes /\ Underway /\ Usable /\ OneOperator /\ SealedReadable /\ KeyToWrite /\ KeyShown
  BY DEF SetupInv
<1>a. IsTab(tab[t]) /\ post[t].kek \in Nat /\ IsDisk(disk)
  BY <1>0 DEF SetupShapes
<1>1. /\ UNCHANGED <<site, db, ram, minted, shared>> /\ site = "portal" /\ post[t].step = "keyed" /\ post[t].kind = "config"
      /\ disk.env /\ post[t].kek # 0
  BY <1>0 DEF writeClientKey, Underway
<1>2. PICK k \in Nat : k = post[t].kek
  BY <1>a
<1>3. /\ disk' = [disk EXCEPT !.key = k] /\ Answer(t, [tab[t] EXCEPT !.verified = TRUE, !.shown = k])
  BY <1>2 DEF writeClientKey
<1>4. IsDisk(disk') /\ disk'.key = k /\ disk'.mtls = disk.mtls /\ disk'.env
  BY <1>a, <1>1, <1>3 DEF IsDisk
<1>5. PICK p : /\ IsTab(p) /\ p.shown \in {k, tab[t].shown} /\ p.late = tab[t].late
               /\ tab' = [tab EXCEPT ![t] = p] /\ post' = [post EXCEPT ![t] = NoPost]
  <2> DEFINE q == [tab[t] EXCEPT !.verified = TRUE, !.shown = k]
  <2>1. IsTab(q) /\ q.shown = k /\ q.late = tab[t].late
    BY <1>a DEF IsTab
  <2>2. Answer(t, q)
    BY <1>3
  <2> HIDE DEF q
  <2> QED BY <1>a, <2>1, <2>2 DEF Answer
<1> HIDE <1>3
<1>b. p.shown \in Nat /\ p.late \subseteq Nat \ {0}
  BY <1>0, <1>5 DEF SetupShapes
<1>6. /\ tab' = [u \in Tabs |-> tab'[u]] /\ tab'[t] = p /\ \A u \in Tabs : u # t => tab'[u] = tab[u]
      /\ \A u \in Tabs : IsTab(tab'[u]) /\ tab'[u].shown \in Nat /\ tab'[u].late \subseteq Nat \ {0}
  BY <1>0, <1>5, <1>b, TabWritten
<1>c. NoPost.kek \in Nat
  BY NoPostFits
<1>7. /\ post' = [u \in Tabs |-> post'[u]] /\ post'[t] = NoPost /\ \A u \in Tabs : u # t => post'[u] = post[u]
      /\ \A u \in Tabs : IsPost(post'[u]) /\ post'[u].kind \in Kinds /\ post'[u].step \in Stages /\ post'[u].kek \in Nat
  BY <1>0, <1>5, <1>c, NoPostFits, PostWritten
<1>8. SetupShapes'
  BY <1>0, <1>1, <1>4, <1>6, <1>7 DEF SetupShapes
<1>9. Underway'
  <2>1. disk'.key # 0
    BY <1>1, <1>2, <1>4
  <2> QED BY <1>0, <1>1, <1>4, <1>7, <2>1, NoPostFits DEF Underway, Is, Configured
<1>10. Usable' /\ SealedReadable' /\ OneOperator'
  BY <1>0, <1>1, <1>2, <1>4 DEF Usable, Configured, SealedReadable, OneOperator, None_
<1>11. KeyToWrite'
  BY <1>0, <1>1, <1>7, <1>9, NoPostFits DEF KeyToWrite, Alone, Underway
<1>12. KeyShown'
  <2> SUFFICES ASSUME shared \cap {"config", "restart", "regenerated", "overtaken"} = {}, NEW u \in Tabs
               PROVE  /\ tab'[u].late = {}
                      /\ tab'[u].shown # 0 => tab'[u].shown = k
                      /\ post'[u].step # "keyed"
    <3>1. Candidate' = k
      BY <1>1, <1>4 DEF Candidate
    <3> QED BY <1>1, <1>4, <3>1 DEF KeyShown
  <2>1. disk.key = 0
    BY <1>0, <1>1 DEF KeyShown
  <2>2. tab[u].late \subseteq {0} /\ (tab[u].shown # 0 /\ tab[u].late = {} => tab[u].shown = 0)
    BY <1>0, <1>1, <2>1 DEF KeyShown, Candidate
  <2>a. tab[t].late \subseteq {0} /\ (tab[t].shown # 0 /\ tab[t].late = {} => tab[t].shown = 0)
    BY <1>0, <1>1, <2>1 DEF KeyShown, Candidate
  <2>b. tab[u].late = {} /\ tab[t].late = {}
    BY <1>0, <2>2, <2>a DEF SetupShapes
  <2>3. post'[u].step # "keyed"
    BY <1>0, <1>1, <1>7, NoPostFits DEF Underway, KeyToWrite, Alone
  <2> QED BY <1>5, <1>6, <2>2, <2>a, <2>b, <2>3
<1> QED BY <1>8, <1>9, <1>10, <1>11, <1>12 DEF SetupInv

\* The finish of the SSO, its one transaction.
LEMMA FinishOK ==
    ASSUME SetupInv, NEW t \in Tabs, runFinishTransaction(t) PROVE SetupInv'
<1>0. SetupShapes /\ Underway /\ Usable /\ OneOperator /\ SealedReadable /\ KeyToWrite /\ KeyShown
  BY DEF SetupInv
<1>a. IsPost(post[t]) /\ post[t].kind \in Kinds /\ post[t].kek \in Nat /\ IsDb(db) /\ db.sealed \in Nat /\ ram.kek \in Nat
  BY <1>0 DEF SetupShapes
<1>1. /\ UNCHANGED <<site, disk, ram, tab, minted>> /\ site = "sso" /\ Is(t, "finish", "received") /\ ram.configured
      /\ shared \subseteq shared'
  BY DEF runFinishTransaction, Is
<1>2. PICK sl \in {db.sealed, ram.kek}, a \in {db.admins \cup {post[t].name}} :
        db' = [db EXCEPT !.admins = a, !.sealed = sl]
  BY <1>a DEF runFinishTransaction, IsDb
<1>3. IsDb(db') /\ db'.admins = db.admins \cup {post[t].name} /\ db'.sealed = sl
  BY <1>a, <1>2 DEF IsDb
<1>4. PICK p : /\ post' = [post EXCEPT ![t] = p] /\ IsPost(p) /\ p.kind \in Kinds /\ p.step \in Stages /\ p.kek \in Nat
               /\ \/ p.step = "committed" /\ p.kind = "finish"
                  \/ p.step = "none" /\ p.kind = "none" /\ "unanswered" \in shared'
  <2> DEFINE q == [post[t] EXCEPT !.step = "committed"]
  <2>1. IsPost(q) /\ q.step = "committed" /\ q.kind = "finish" /\ q.kek = post[t].kek
    BY <1>a, <1>1 DEF IsPost, Is
  <2>2. "finish" \in Kinds /\ "committed" \in Stages
    BY DEF Kinds, Stages
  <2>3. \/ post' = [post EXCEPT ![t] = q]
        \/ post' = [post EXCEPT ![t] = NoPost] /\ "unanswered" \in shared'
    BY <1>0 DEF SetupShapes, runFinishTransaction
  <2> HIDE DEF q
  <2>4. CASE post' = [post EXCEPT ![t] = q]
    BY <1>a, <2>1, <2>2, <2>4
  <2>5. CASE post' = [post EXCEPT ![t] = NoPost] /\ "unanswered" \in shared'
    <3>1. NoPost.kek \in Nat
      BY NoPostFits
    <3> QED BY <2>5, <3>1, NoPostFits
  <2> QED BY <2>3, <2>4, <2>5
<1>6. /\ post' = [u \in Tabs |-> post'[u]] /\ post'[t] = p /\ \A u \in Tabs : u # t => post'[u] = post[u]
      /\ \A u \in Tabs : IsPost(post'[u]) /\ post'[u].kind \in Kinds /\ post'[u].step \in Stages /\ post'[u].kek \in Nat
  BY <1>0, <1>4, PostWritten
<1>7. SetupShapes'
  <2>1. sl \in Nat
    BY <1>a, <1>2
  <2> QED BY <1>0, <1>1, <1>3, <1>6, <2>1 DEF SetupShapes
<1>8. ram.up /\ Configured /\ ram.kek = disk.key
  BY <1>0, <1>1 DEF Underway, Usable, Is
<1>9. Underway' /\ Usable'
  BY <1>0, <1>1, <1>3, <1>4, <1>6, <1>8 DEF Underway, Usable, Is, Configured, HoldsKey
<1>10. SealedReadable'
  BY <1>0, <1>1, <1>2, <1>3, <1>8 DEF SealedReadable
<1>11. OneOperator'
  <2> SUFFICES ASSUME shared' \cap {"finish", "outage", "unanswered", "torn"} = {}
               PROVE  /\ Alone("finish")'
                      /\ \E n \in db'.admins : db'.admins = {n}
                      /\ \A u \in Tabs : ~Is(u, "finish", "received")'
                      /\ \E u \in Tabs : post'[u].step = "committed"
    BY <1>1 DEF OneOperator
  <2>1. Alone("finish") /\ db.admins = {}
    BY <1>0, <1>1 DEF OneOperator
  <2>2. \A u \in Tabs : u # t => post[u].kind # "finish"
    BY <1>1, <2>1 DEF Alone, Is
  <2>3. Alone("finish")'
    BY <1>6, <2>2 DEF Alone
  <2>4. \A u \in Tabs : ~Is(u, "finish", "received")'
    BY <1>4, <1>6, <2>2 DEF Is
  <2>5. db'.admins = {post[t].name}
    BY <1>3, <2>1
  <2> QED BY <1>4, <1>6, <2>3, <2>4, <2>5
<1>12. \A u \in Tabs : /\ post'[u].kind \in {post[u].kind, "none"}
                       /\ post'[u] = post[u] \/ post'[u].step \in {"committed", "none"}
  BY <1>1, <1>4, <1>6 DEF Is
<1>13. KeyToWrite'
  BY <1>0, <1>1, <1>12 DEF KeyToWrite, Alone
<1>14. KeyShown'
  <2>1. Candidate' = Candidate
    BY <1>1 DEF Candidate
  <2> QED BY <1>0, <1>1, <1>12, <2>1 DEF KeyShown
<1> QED BY <1>7, <1>9, <1>10, <1>11, <1>13, <1>14 DEF SetupInv

\* A boot reads what the last process left.
LEMMA BootOK ==
    ASSUME SetupInv, main_portal \/ \E reachable \in BOOLEAN : main_sso(reachable) PROVE SetupInv'
<1>0. SetupShapes /\ Underway /\ Usable /\ OneOperator /\ SealedReadable /\ KeyToWrite /\ KeyShown
  BY DEF SetupInv
<1>1. UNCHANGED <<site, db, tab, post, minted>> /\ ~ram.up /\ shared \subseteq shared'
  BY DEF main_sso, main_portal
<1>2. PICK configured \in BOOLEAN, complete \in BOOLEAN :
        /\ ram' = Booted([configured |-> configured, complete |-> complete]) /\ \E k : disk' = [disk EXCEPT !.token = k]
        /\ configured => Configured
        /\ site = "sso" => (complete => db.admins # {})
        /\ site = "portal" => (complete => Configured)
        /\ site = "sso" /\ db.admins # {} /\ Configured => complete \/ "outage" \in shared'
  <2>1. CASE main_portal
    <3>1. PICK c \in BOOLEAN : c = (disk.env /\ disk.key # 0)
      OBVIOUS
    <3>2. (c <=> Configured) /\ isConfigured_portal = c
      BY <3>1 DEF isConfigured_portal, Configured, None_
    <3>3. resolveState_portal = [configured |-> c, complete |-> c]
      BY <3>2 DEF resolveState_portal
    <3>4. ram' = Booted([configured |-> c, complete |-> c]) /\ site = "portal" /\ \E k : disk' = [disk EXCEPT !.token = k]
      BY <2>1, <3>3 DEF main_portal
    <3> QED BY <3>2, <3>4
  <2>2. ASSUME NEW reachable \in BOOLEAN, main_sso(reachable)
        PROVE  \E configured \in BOOLEAN, complete \in BOOLEAN :
                 /\ ram' = Booted([configured |-> configured, complete |-> complete]) /\ \E k : disk' = [disk EXCEPT !.token = k]
                 /\ configured => Configured
                 /\ site = "sso" => (complete => db.admins # {})
                 /\ site = "portal" => (complete => Configured)
                 /\ site = "sso" /\ db.admins # {} /\ Configured => complete \/ "outage" \in shared'
    <3>1. PICK s \in BOOLEAN : s <=> db.schema
      OBVIOUS
    <3>2. PICK c \in BOOLEAN : c = (isConfigured_sso /\ reachable /\ db.schema)
      OBVIOUS
    <3>3. PICK d \in BOOLEAN : d = (isConfigured_sso /\ reachable /\ db.admins # {})
      OBVIOUS
    <3>4. resolveState_sso(reachable) = [configured |-> c, complete |-> d]
      BY <3>2, <3>3 DEF resolveState_sso
    <3>5. ram' = Booted([configured |-> c, complete |-> d]) /\ site = "sso" /\ \E k : disk' = [disk EXCEPT !.token = k]
      BY <2>2, <3>4 DEF main_sso
    <3>6. ~reachable /\ db.admins # {} => "outage" \in shared'
      BY <2>2 DEF main_sso
    <3>7. isConfigured_sso <=> Configured
      BY DEF isConfigured_sso, Configured, None_
    <3> QED BY <3>2, <3>3, <3>5, <3>6, <3>7
  <2> QED BY <2>1, <2>2
<1>3. PICK k : disk' = [disk EXCEPT !.token = k]
  BY <1>2
<1>a. IsDisk(disk) /\ disk.key \in Nat /\ IsMtls(disk.mtls) /\ site \in {"sso", "portal"}
  BY <1>0 DEF SetupShapes
<1>4. IsDisk(disk') /\ \A f \in {"env", "key", "mtls"} : disk'[f] = disk[f]
  BY <1>a, <1>3 DEF IsDisk
<1>5. /\ IsRam(ram') /\ ram'.up /\ ram'.complete = complete /\ ram'.configured = configured
      /\ ram'.kek = disk.key /\ ram'.mtls = disk.mtls /\ ram'.pendingKek = 0
  BY <1>2 DEF Booted, Down, IsRam, None_
<1>6. SetupShapes'
  <2>1. ram'.pendingKek \in Nat
    BY <1>5
  <2> QED BY <1>0, <1>1, <1>a, <1>4, <1>5, <2>1 DEF SetupShapes
<1>7. \A t \in Tabs : post[t].kind = "none" /\ post[t].step = "none"
  BY <1>0, <1>1 DEF Underway
<1>8. Underway'
  BY <1>0, <1>1, <1>4, <1>5, <1>7 DEF Underway, Is, HoldsKey
<1>9. Usable'
  BY <1>0, <1>1, <1>2, <1>4, <1>5 DEF Usable, Configured
<1>10. OneOperator'
  <2>1. site = "sso" /\ db.admins # {} => Configured \/ "torn" \in shared
    BY <1>0 DEF Usable
  <2> QED BY <1>0, <1>1, <1>2, <1>5, <1>7, <2>1 DEF OneOperator, Alone, Is
<1>11. SealedReadable'
  BY <1>0, <1>1, <1>4 DEF SealedReadable
<1>12. KeyToWrite'
  BY <1>1, <1>7 DEF KeyToWrite, Alone
<1>13. KeyShown'
  <2>1. ram.pendingKek = 0
    BY <1>0, <1>1 DEF Underway
  <2>2. Candidate' = Candidate
    BY <1>1, <1>4, <1>5, <2>1 DEF Candidate
  <2> QED BY <1>0, <1>1, <1>4, <2>2 DEF KeyShown
<1> QED BY <1>6, <1>8, <1>9, <1>10, <1>11, <1>12, <1>13 DEF SetupInv

\* A stop ends the process and every request, and may leave a torn file.
LEMMA HaltOK ==
    ASSUME SetupInv, HostStop \/ TornWrite PROVE SetupInv'
<1>0. SetupShapes /\ Underway /\ Usable /\ OneOperator /\ SealedReadable /\ KeyToWrite /\ KeyShown
  BY DEF SetupInv
<1>1. /\ UNCHANGED <<site, db, tab, minted>> /\ shared \subseteq shared' /\ post' = [t \in Tabs |-> NoPost]
      /\ (\E t \in Tabs : HoldsKey(t)) => "restart" \in shared'
      /\ ram' = [Down EXCEPT !.boots = ram.boots]
  BY DEF HostStop, TornWrite, Halted
<1>2. IsMtls(NoMtls)
  BY DEF IsMtls, NoMtls
<1>3. /\ IsRam(ram') /\ ~ram'.up /\ ~ram'.complete /\ ~ram'.configured /\ ram'.kek = 0
      /\ ram'.mtls = NoMtls /\ ram'.pendingKek = 0
  BY <1>1 DEF Down, IsRam, None_
<1>a. IsDisk(disk) /\ disk.key \in Nat /\ IsMtls(disk.mtls)
  BY <1>0 DEF SetupShapes
<1>4. IsDisk(disk') /\ disk'.key = disk.key /\ disk'.env = disk.env /\ IsMtls(disk'.mtls)
  <2>1. CASE HostStop
    BY <1>a, <2>1 DEF HostStop
  <2>2. CASE TornWrite
    <3>1. disk' = [disk EXCEPT !.mtls = NoMtls]
      BY <2>2 DEF TornWrite
    <3>2. IsDisk(disk') /\ disk'.key = disk.key /\ disk'.env = disk.env /\ disk'.mtls = NoMtls
      BY <1>a, <3>1 DEF IsDisk
    <3> QED BY <1>2, <3>2
  <2> QED BY <2>1, <2>2
<1>5. \A t \in Tabs : post'[t] = NoPost
  BY <1>1
<1>6. SetupShapes'
  <2>1. ram'.pendingKek \in Nat /\ ram'.kek \in Nat
    BY <1>3
  <2>2. NoPost.kek \in Nat
    BY NoPostFits
  <2> QED BY <1>0, <1>1, <1>2, <1>3, <1>4, <1>5, <1>a, <2>1, <2>2, NoPostFits DEF SetupShapes
<1>7. Underway' /\ Usable' /\ OneOperator'
  BY <1>0, <1>1, <1>3, <1>4, <1>5, NoPostFits DEF Underway, Usable, OneOperator, Is, Alone, Configured, HoldsKey
<1>8. SealedReadable' /\ KeyToWrite' /\ KeyShown'
  BY <1>0, <1>1, <1>3, <1>4, <1>5, NoPostFits DEF SealedReadable, KeyToWrite, KeyShown, Alone, HoldsKey, None_
<1> QED BY <1>6, <1>7, <1>8 DEF SetupInv

\* A stop in the middle of a write leaves .env or the client key cut.
LEMMA TornOK ==
    ASSUME SetupInv, NEW t \in Tabs, TornEnv(t) \/ TornKey(t) PROVE SetupInv'
<1>0. SetupShapes /\ Underway /\ Usable /\ OneOperator /\ SealedReadable /\ KeyToWrite /\ KeyShown
  BY DEF SetupInv
<1>1. /\ UNCHANGED <<site, db, tab, minted>> /\ shared \subseteq shared' /\ "torn" \in shared'
      /\ post' = [u \in Tabs |-> NoPost]
      /\ (\E u \in Tabs : HoldsKey(u)) => "restart" \in shared'
      /\ ram' = [Down EXCEPT !.boots = ram.boots]
  BY DEF TornEnv, TornKey, Halted
<1>2. IsMtls(NoMtls)
  BY DEF IsMtls, NoMtls
<1>3. /\ IsRam(ram') /\ ~ram'.up /\ ~ram'.complete /\ ~ram'.configured /\ ram'.kek = 0
      /\ ram'.mtls = NoMtls /\ ram'.pendingKek = 0
  BY <1>1 DEF Down, IsRam, None_
<1>a. IsDisk(disk) /\ disk.key \in Nat /\ IsMtls(disk.mtls) /\ post[t].kek \in Nat
  BY <1>0 DEF SetupShapes
<1>4. IsDisk(disk') /\ disk'.key \in Nat /\ IsMtls(disk'.mtls)
  <2>1. CASE TornEnv(t)
    <3>1. PICK env \in BOOLEAN, key \in IF site = "sso" THEN {0, post[t].kek} ELSE {disk.key} :
              disk' = [disk EXCEPT !.env = env, !.key = key, !.cut = disk.cut \cup {"env"}]
      BY <2>1 DEF TornEnv, None_
    <3>2. key \in Nat
      BY <1>a, <3>1
    <3>3. IsDisk(disk') /\ disk'.key = key /\ disk'.mtls = disk.mtls
      BY <1>a, <3>1 DEF IsDisk
    <3> QED BY <1>a, <3>2, <3>3
  <2>2. CASE TornKey(t)
    <3>1. disk' = [disk EXCEPT !.key = post[t].kek, !.cut = disk.cut \cup {"key"}]
      BY <1>a, <2>2 DEF TornKey
    <3>2. IsDisk(disk') /\ disk'.key = post[t].kek /\ disk'.mtls = disk.mtls
      BY <1>a, <3>1 DEF IsDisk
    <3> QED BY <1>a, <3>2
  <2> QED BY <2>1, <2>2
<1>5. \A u \in Tabs : post'[u] = NoPost
  BY <1>1
<1>6. SetupShapes'
  <2>1. ram'.pendingKek \in Nat /\ ram'.kek \in Nat
    BY <1>3
  <2>2. NoPost.kek \in Nat
    BY NoPostFits
  <2> QED BY <1>0, <1>1, <1>2, <1>3, <1>4, <1>5, <2>1, <2>2, NoPostFits DEF SetupShapes
<1>7. Underway' /\ Usable' /\ OneOperator'
  BY <1>0, <1>1, <1>3, <1>5, NoPostFits DEF Underway, Usable, OneOperator, Is, Alone, Configured, HoldsKey
<1>8. SealedReadable' /\ KeyToWrite' /\ KeyShown'
  BY <1>0, <1>1, <1>3, <1>5, NoPostFits DEF SealedReadable, KeyToWrite, KeyShown, Alone, HoldsKey, None_
<1> QED BY <1>6, <1>7, <1>8 DEF SetupInv

LEMMA SetupStep == SetupInv /\ [SetupNext]_setupVars => SetupInv'
<1> SUFFICES ASSUME SetupInv, [SetupNext]_setupVars PROVE SetupInv'
  OBVIOUS
<1>1. CASE main_portal \/ \E reachable \in BOOLEAN : main_sso(reachable)
  BY <1>1, BootOK
<1>2. CASE HostStop \/ TornWrite \/ \E t \in Tabs : TornEnv(t) \/ TornKey(t)
  BY <1>2, HaltOK, TornOK
<1>3. ASSUME NEW t \in Tabs,
             loadEnv_sso(t) \/ loadEnv_portal(t) \/ reloadPage(t) \/ turnPage(t) \/ regen(t) \/ regenArrives(t)
      PROVE  SetupInv'
  BY <1>3, PageTurnsOK, RegenOK
<1>4. ASSUME NEW t \in Tabs,
             saveEnv_sso(t) \/ saveEnv_portal(t) \/ doFinish_sso(t) \/ doFinish_portal(t) \/ generateRequest(t)
      PROVE  SetupInv'
  <2>1. PICK k \in Kinds \ {"none"}, name \in Names \cup {None_} : Send(t, k, name)
    BY <1>4 DEF saveEnv_sso, saveEnv_portal, doFinish_sso, doFinish_portal, generateRequest, Kinds
  <2> QED BY <2>1, SendOK
<1>5. ASSUME NEW t \in Tabs,
             Refused(t) \/ applyAndPersist(t) \/ markComplete_sso(t) \/ markComplete_portal(t)
      PROVE  SetupInv'
  BY <1>5, RequestsEndOK
<1>6. ASSUME NEW t \in Tabs, captureKek(t) \/ applySchema(t) \/ upsertEnv_sso(t) \/ upsertEnv_portal(t) PROVE SetupInv'
  BY <1>6, CaptureOK, SchemaOK, EnvWrittenOK, PortalSaveOK
<1>7. ASSUME NEW t \in Tabs, ensureClientKey(t) \/ writeClientKey(t) \/ runFinishTransaction(t) PROVE SetupInv'
  BY <1>7, RequestsEndOK, PortalSaveOK, ClientKeyOK, FinishOK
<1>8. ASSUME NEW t \in Tabs, newRequest(t) \/ installLeaf(t) \/ certReset(t) PROVE SetupInv'
  BY <1>8, CertificateOK
<1>9. CASE UNCHANGED setupVars
  BY <1>9 DEF setupVars, SetupInv, SetupShapes, Underway, Is, Usable, Configured, OneOperator, Alone, SealedReadable,
              KeyToWrite, KeyShown, Candidate, HoldsKey
<1> QED BY <1>1, <1>2, <1>3, <1>4, <1>5, <1>6, <1>7, <1>8, <1>9 DEF SetupNext

\* A file is cut only by a stop that came while it was written.
CutByStop == disk.cut # {} => "torn" \in shared
LEMMA CutStep == SetupShapes /\ CutByStop /\ [SetupNext]_setupVars => CutByStop'
<1> SUFFICES ASSUME SetupShapes, CutByStop, [SetupNext]_setupVars PROVE CutByStop'
  OBVIOUS
<1>0. IsDisk(disk)
  BY DEF SetupShapes
<1>1. CASE \E t \in Tabs : TornEnv(t) \/ TornKey(t)
  BY <1>1 DEF TornEnv, TornKey, Halted, CutByStop
<1>2. CASE disk'.cut \subseteq disk.cut /\ shared \subseteq shared'
  BY <1>2 DEF CutByStop
<1>3. CASE \E reachable \in BOOLEAN : main_sso(reachable)
  BY <1>0, <1>2, <1>3 DEF main_sso, IsDisk
<1>4. CASE main_portal \/ HostStop \/ TornWrite
  BY <1>0, <1>2, <1>4 DEF main_portal, HostStop, TornWrite, Halted, IsDisk
<1>5. ASSUME NEW t \in Tabs,
             \/ loadEnv_sso(t) \/ loadEnv_portal(t) \/ reloadPage(t) \/ turnPage(t) \/ regen(t) \/ regenArrives(t)
             \/ saveEnv_sso(t) \/ saveEnv_portal(t) \/ doFinish_sso(t) \/ doFinish_portal(t) \/ generateRequest(t)
             \/ Refused(t) \/ captureKek(t) \/ applySchema(t) \/ applyAndPersist(t) \/ ensureClientKey(t)
             \/ runFinishTransaction(t)
      PROVE  CutByStop'
  <2>1. disk' = disk /\ shared \subseteq shared'
    BY <1>5 DEF loadEnv_sso, loadEnv_portal, reloadPage, turnPage, regen, regenArrives, saveEnv_sso, saveEnv_portal,
                doFinish_sso, doFinish_portal, generateRequest, Send, Refused, captureKek, applySchema,
                applyAndPersist, ensureClientKey, runFinishTransaction
  <2> QED BY <1>2, <2>1
<1>6. ASSUME NEW t \in Tabs, upsertEnv_sso(t) \/ upsertEnv_portal(t) \/ writeClientKey(t) PROVE CutByStop'
  BY <1>0, <1>2, <1>6 DEF upsertEnv_sso, upsertEnv_portal, writeClientKey, IsDisk
<1>7. ASSUME NEW t \in Tabs, markComplete_sso(t) \/ markComplete_portal(t) PROVE CutByStop'
  BY <1>0, <1>2, <1>7 DEF markComplete_sso, markComplete_portal, Completed, IsDisk
<1>8. ASSUME NEW t \in Tabs, newRequest(t) \/ installLeaf(t) \/ certReset(t) PROVE CutByStop'
  BY <1>0, <1>2, <1>8 DEF newRequest, installLeaf, certReset, write, IsDisk
<1>9. CASE UNCHANGED setupVars
  BY <1>2, <1>9 DEF setupVars
<1> QED BY <1>1, <1>3, <1>4, <1>5, <1>6, <1>7, <1>8, <1>9 DEF SetupNext

LEMMA SetupInvSound == SetupInv /\ CutByStop => SetupSound
<1> SUFFICES ASSUME SetupInv, CutByStop PROVE SetupSound
  OBVIOUS
<1>0. SetupShapes /\ Underway /\ Usable /\ OneOperator /\ SealedReadable /\ KeyToWrite /\ KeyShown
  BY DEF SetupInv
<1>1. CompleteIsUsable
  BY <1>0 DEF Usable, CompleteIsUsable, Configured, SetupShapes, CutByStop, None_
<1>2. InstalledOnce
  <2>1. ASSUME shared \cap {"finish", "outage", "unanswered", "torn"} = {} PROVE Cardinality(db.admins) \in {0, 1}
    <3>1. CASE db.admins = {}
      BY <3>1, FS_EmptySet
    <3>2. CASE db.admins # {}
      <4>1. PICK n \in db.admins : db.admins = {n}
        BY <1>0, <2>1, <3>2 DEF OneOperator, Usable, SetupShapes
      <4>2. Cardinality({n}) = 1
        BY FS_Singleton
      <4> QED BY <4>1, <4>2
    <3> QED BY <3>1, <3>2
  <2> QED BY <2>1 DEF InstalledOnce
<1>3. ShownIsWritten
  <2> SUFFICES ASSUME NEW t \in Tabs, tab[t].verified, tab[t].shown # 0, disk.key # tab[t].shown,
                      shared \cap {"config", "restart", "regenerated", "overtaken"} = {}
               PROVE  FALSE
    BY DEF ShownIsWritten, None_
  <2>1. disk.key # 0
    BY <1>0 DEF Underway, HoldsKey, None_
  <2>2. Candidate = disk.key
    BY <2>1 DEF Candidate
  <2> QED BY <1>0, <2>2 DEF KeyShown
<1>4. IdentityMatches
  <2>1. ram.mtls.key = ram.mtls.cert
    BY <1>0 DEF SetupShapes, IsMtls
  <2> QED BY <2>1 DEF IdentityMatches, portalIdentity
<1> QED BY <1>0, <1>1, <1>2, <1>3, <1>4 DEF SetupSound

\* First-run setup holds together over crashes, overlapping pages, lost answers and
\* half-done saves: a completed server has its values and its key, or its operator,
\* and a file is cut only by a stop that came as it was written; a second operator
\* comes only from overlapping finishes, a commit whose answer was lost, or a boot
\* that missed the database or found .env cut; what was sealed opens, unless a stop
\* cut .env or saves overlapped with a new candidate; a page shows the key that was
\* written, save for the overlaps, stops and late answers ShownIsWritten names; a
\* certificate goes with its own key (applyAndPersist, ensureClientKey,
\* runFinishTransaction, MtlsState).
THEOREM SetupAlwaysSound == SetupSpec => []SetupSound
<1>1. (\E s \in {"sso", "portal"} : SetupInit(s)) => SetupInv
  BY SetupStart
<1>2. (\E s \in {"sso", "portal"} : SetupInit(s)) => CutByStop
  BY DEF SetupInit, CutByStop
<1>3. SetupInv /\ CutByStop /\ [SetupNext]_setupVars => CutByStop'
  BY CutStep DEF SetupInv
<1> QED BY <1>1, <1>2, <1>3, SetupStep, SetupInvSound, PTL DEF SetupSpec
=============================================================================
