------------------------------ MODULE Profile ------------------------------
(* Display name and profile picture: the row and the picture files at the  *)
(* SSO, the announcement to the applications, and the copy the portal      *)
(* keeps in its session document, which every request reads at its start   *)
(* and writes back whole.  Two requests of one portal session (two tabs,   *)
(* or two controls of one page), a request of another session of the same  *)
(* user, whose document is not this one, and an administrator who removes  *)
(* the picture or edits the name run interleaved, one statement or call at *)
(* a time.                                                                 *)
EXTENDS Naturals, FiniteSets

CONSTANTS MaxCalls    \* requests of the portal's pages, and edits of the name by an administrator

VARIABLES
    identity,    \* picture (0: none) and name in the identities row
    files,       \* pictures on the SSO's disk
    doc,         \* one portal session's document: cached picture and name
    jobs,        \* the requests in flight, by stage
    pushes,      \* announcements on their way into the outbox
    announced,   \* the picture the applications were told last
    made,        \* requests sent so far; numbers new pictures and names
    torn         \* what explains a stale copy: overlaps, lost answers, stops, others' changes

profileVars == <<identity, files, doc, jobs, pushes, announced, made, torn>>

Callers == {"one", "two"}
Sessions == Callers \cup {"other"}
Workers == Callers \cup {"other", "admin"}
NoCopy == [pic |-> 0, name |-> 0]
NoJob == [op |-> "none", at |-> "idle", snap |-> NoCopy, stale |-> FALSE, cur |-> 0, new |-> 0]
At(k, stage) == jobs[k].at = stage
Moves(k, stage) == jobs' = [jobs EXCEPT ![k].at = stage]
Leaves(k) == jobs' = [jobs EXCEPT ![k] = NoJob]

ProfileInit ==
    /\ identity = [pic |-> 1, name |-> 0]
    /\ files = {1}
    /\ doc = [pic |-> 1, name |-> 0]
    /\ jobs = [k \in Workers |-> NoJob]
    /\ pushes = {}
    /\ announced = 1
    /\ made = 0
    /\ torn = [doc |-> FALSE, apps |-> FALSE]

-----------------------------------------------------------------------------
(* The portal.  A request reads the session document and, its access token *)
(* good or renewed, calls the SSO; a look needs no more than the document. *)
FirstStage(op) ==
    CASE op = "upload" -> "store" [] op = "remove" -> "select" [] op = "rename" -> "update"
      [] OTHER -> "answer"
requireSession_portal(k, op, new) ==
    /\ At(k, "idle") /\ made < MaxCalls /\ made' = made + 1
    /\ \E stage \in {"renew", FirstStage(op)} :
          jobs' = [jobs EXCEPT ![k] = [NoJob EXCEPT !.op = op, !.new = new, !.at = stage, !.snap = doc]]
    /\ UNCHANGED <<identity, files, doc, pushes, announced, torn>>
uploadAvatar(k) == requireSession_portal(k, "upload", made + 2)
deleteAvatar(k) == requireSession_portal(k, "remove", 0)
updateProfile(k) == requireSession_portal(k, "rename", made + 2)
getMe(k) == requireSession_portal(k, "look", 0)
(* The same from another session of the user, with a document of its own.  *)
otherSession ==
    /\ At("other", "idle") /\ made < MaxCalls /\ made' = made + 1
    /\ \E op \in {"upload", "remove", "rename"} :
          jobs' = [jobs EXCEPT !["other"] = [NoJob EXCEPT !.op = op, !.at = FirstStage(op),
                                                !.new = IF op = "remove" THEN 0 ELSE made + 2]]
    /\ UNCHANGED <<identity, files, doc, pushes, announced, torn>>

(* A document is written as the request read it, with the request's own    *)
(* change; what was written in between is undone.                          *)
WritesBack(k, s, stage) ==
    /\ doc' = s
    /\ jobs' = [o \in Workers |->
          IF o = k THEN IF stage = "idle" THEN NoJob ELSE [jobs[k] EXCEPT !.at = stage, !.snap = s]
          ELSE [jobs[o] EXCEPT !.stale = @ \/ ~At(o, "idle")]]
    /\ torn' = [torn EXCEPT !.doc = @ \/ (jobs[k].stale /\ s # doc)]
(* A failed renewal goes on with a token that is still good for seconds;   *)
(* with an expired one a change is refused and a look answered from the    *)
(* copy.                                                                   *)
renewAccessToken(k) ==
    /\ At(k, "renew")
    /\ \/ WritesBack(k, jobs[k].snap, FirstStage(jobs[k].op))
       \/ Moves(k, FirstStage(jobs[k].op)) /\ UNCHANGED <<doc, torn>>
       \/ Leaves(k) /\ UNCHANGED <<doc, torn>>
    /\ UNCHANGED <<identity, files, pushes, announced, made>>
(* The call fails before the SSO has done anything, or is refused there.   *)
upstreamFails(k) ==
    /\ jobs[k].at = FirstStage(jobs[k].op) /\ Leaves(k)
    /\ UNCHANGED <<identity, files, doc, pushes, announced, made, torn>>

Reflects_NoPicture(j) == IF j.op = "rename" THEN [j.snap EXCEPT !.name = j.new] ELSE j.snap
Reflects(j) ==
    CASE j.op \in {"upload", "remove"} -> [j.snap EXCEPT !.pic = j.new]
      [] j.op = "rename" -> [j.snap EXCEPT !.name = j.new]
      [] OTHER -> j.snap
(* The SSO's answer arrives and is reflected in the document, or is lost.  *)
answerArrives(k) ==
    /\ At(k, "answer")
    /\ \/ WritesBack(k, Reflects(jobs[k]), "idle")
       \/ /\ Leaves(k) /\ torn' = [torn EXCEPT !.doc = @ \/ jobs[k].op # "look"]
          /\ UNCHANGED doc
    /\ UNCHANGED <<identity, files, pushes, announced, made>>

-----------------------------------------------------------------------------
(* The SSO: the new file first, then the row, then the old file, then the  *)
(* announcement, which nobody waits for.  The SSO may stop in between: the *)
(* row may have changed and nobody be told.                                *)
Answers(k) == IF k \in Callers THEN Moves(k, "answer") ELSE Leaves(k)
ssoStops(k) ==
    /\ jobs[k].at \in {"select", "update", "unlink"} /\ Leaves(k)
    /\ torn' = [doc |-> torn.doc \/ At(k, "unlink"), apps |-> torn.apps \/ At(k, "unlink")]
    /\ UNCHANGED <<identity, files, doc, pushes, announced, made>>
processAndStoreAvatar(k) ==
    /\ At(k, "store")
    /\ files' = files \cup {jobs[k].new} /\ Moves(k, "select")
    /\ UNCHANGED <<identity, doc, pushes, announced, made, torn>>
selectAvatar(k) ==
    /\ At(k, "select")
    /\ IF jobs[k].op = "remove" /\ identity.pic = 0 THEN Answers(k)
       ELSE jobs' = [jobs EXCEPT ![k].cur = identity.pic, ![k].at = "update"]
    /\ UNCHANGED <<identity, files, doc, pushes, announced, made, torn>>
orgRemoveAvatar ==
    /\ identity.pic # 0
    /\ At("admin", "idle")
    /\ jobs' = [jobs EXCEPT !["admin"] = [NoJob EXCEPT !.op = "remove", !.at = "update", !.cur = identity.pic]]
    /\ UNCHANGED <<identity, files, doc, pushes, announced, made, torn>>

ChangeUnderway(k) == pushes # {} \/ \E o \in Workers \ {k} : At(o, "unlink")
renameRow(k) ==
    /\ At(k, "update") /\ jobs[k].op = "rename"
    /\ identity' = [identity EXCEPT !.name = jobs[k].new]
    /\ Answers(k)
    /\ torn' = [torn EXCEPT !.doc = @ \/ k \notin Callers]
    /\ UNCHANGED <<files, doc, pushes, announced, made>>
(* An administrator's edit of the name: one statement, and nobody is told. *)
orgRename ==
    /\ made < MaxCalls /\ made' = made + 1
    /\ identity' = [identity EXCEPT !.name = made + 2]
    /\ torn' = [torn EXCEPT !.doc = TRUE]
    /\ UNCHANGED <<files, doc, jobs, pushes, announced>>
updateRow(k) ==
    /\ At(k, "update") /\ jobs[k].op # "rename"
    /\ identity' = [identity EXCEPT !.pic = jobs[k].new]
    /\ Moves(k, "unlink")
    /\ torn' = [doc |-> torn.doc \/ k \notin Callers, apps |-> torn.apps \/ ChangeUnderway(k)]
    /\ UNCHANGED <<files, doc, pushes, announced, made>>
Doomed_Row(k) == identity.pic
Doomed(k) == jobs[k].cur
pushAvatarChange(k) == pushes' = pushes \cup {[by |-> k, pic |-> jobs[k].new]}
deleteAvatarFile(k) ==
    /\ At(k, "unlink")
    /\ files' = files \ {Doomed(k)}
    /\ pushAvatarChange(k)
    /\ Answers(k)
    /\ UNCHANGED <<identity, doc, announced, made, torn>>
fannedOut(p) ==
    /\ pushes' = pushes \ {p}
    /\ \/ announced' = p.pic /\ UNCHANGED torn
       \/ UNCHANGED announced /\ torn' = [torn EXCEPT !.apps = TRUE]
    /\ UNCHANGED <<identity, files, doc, jobs, made>>

ProfileNext ==
    \/ \E k \in Callers :
          \/ uploadAvatar(k) \/ deleteAvatar(k) \/ updateProfile(k) \/ getMe(k)
          \/ renewAccessToken(k) \/ upstreamFails(k) \/ answerArrives(k)
    \/ \E k \in Sessions : processAndStoreAvatar(k) \/ selectAvatar(k) \/ renameRow(k)
    \/ \E k \in Workers : updateRow(k) \/ deleteAvatarFile(k) \/ ssoStops(k)
    \/ otherSession \/ orgRemoveAvatar \/ orgRename
    \/ \E p \in pushes : fannedOut(p)
ProfileSpec == ProfileInit /\ [][ProfileNext]_profileVars

-----------------------------------------------------------------------------
(* Whatever overlaps or stops, the row never names a picture whose file is *)
(* gone (avatar.ts:62-64 stores, switches, then deletes what it had read). *)
(* Once no request is under way, a portal session's copy of picture and    *)
(* name is the SSO's, unless a request wrote back a document another had   *)
(* changed since it was read (api.ts:297, session.ts:59), an answer was    *)
(* lost, the SSO stopped after the row had changed, or the change was      *)
(* another session's or an administrator's, of which nothing tells this    *)
(* session (org.ts:459, org.ts:495, avatar.ts:24).  And the applications   *)
(* have the picture of the row unless two changes overlapped, the SSO      *)
(* stopped before it announced one, or an announcement failed              *)
(* (avatar.ts:27-41).                                                      *)
PictureSound ==
    /\ identity.pic # 0 => identity.pic \in files
    /\ (\A k \in Workers : At(k, "idle")) =>
          /\ torn.doc \/ (doc.pic = identity.pic /\ doc.name = identity.name)
          /\ torn.apps \/ pushes # {} \/ announced = identity.pic
=============================================================================
