------------------------------ MODULE Settings ------------------------------
(***************************************************************************)
(* The settings table, its five-second cache (src/src/settings.ts), and    *)
(* the requests whose rows belong together: the session windows and the    *)
(* site name (src/src/routes/admin.ts), the client certificate and its key *)
(* (src/src/mtls.ts, admin-ui/src/MtlsCard.jsx) and the outbound calls     *)
(* that present them (src/src/s2sFetch.ts).  Every row is read and written *)
(* by a statement of its own, so requests interleave between any two.      *)
(* A behaviour is about one topic: the requests of different topics touch  *)
(* different rows.                                                         *)
(***************************************************************************)
EXTENDS Integers, Sequences

CONSTANTS
    Slots,         \* administrators; each has one request under way
    Bodies,        \* PUT bodies: some of the windows, with whole hours
    Fallback,      \* windows that have no row
    MaxRequests,   \* bound: requests of a behaviour, by topic
    Null,          \* no row
    Absent         \* no cache entry

Windows == <<"idle", "max", "trans">>

(* Hours are numbers, and the ones that apply without a row are in order.  *)
ASSUME SettingsAssumption ==
    /\ Null \notin Int
    /\ \A k \in {"idle", "max", "trans"} : Fallback[k] \in Int
    /\ Fallback["idle"] <= Fallback["max"] /\ Fallback["trans"] <= Fallback["max"]
    /\ \A b \in Bodies : \A k \in DOMAIN b : k \in {"idle", "max", "trans"} /\ b[k] \in Int

VARIABLES
    topic,      \* "windows", "site" or "mtls"
    table,      \* key -> value
    cache,      \* key -> value, or Absent
    job,        \* slot -> the request under way
    card,       \* slot -> what its mTLS card shows: [sees, modal, csr]
    agent,      \* the dispatcher for outbound calls
    lapsed,     \* expired certificates
    made,       \* key pairs generated
    spreading,  \* site names being announced
    toldName,   \* the site name the applications know
    missed,     \* the last name to announce was not: applications keep an older one
    torn,       \* writers overlapped, or one stopped half-way
    requests    \* bound

settingVars == <<topic, table, cache, job, card, agent, lapsed, made, spreading, toldName, missed, torn, requests>>

MtlsRows == {"activeKey", "pendingKey", "cert", "enforce"}
Rows == {"idle", "max", "trans", "site", "gate"} \cup MtlsRows
Mutators == {"put", "site", "gateKey", "csr", "install", "enforce", "reset"}
Waiting == [kind |-> "none", arg |-> Null, got |-> << >>, writes |-> << >>, step |-> "idle",
            sel |-> Null, valid |-> FALSE, clean |-> FALSE]
Closed == [sees |-> "nothing", modal |-> "none", csr |-> 0]

Busy(j) == job[j].step # "idle"
Mutating(j) == Busy(j) /\ job[j].kind \in Mutators
Certs == [key : 1..made, n : {1, 2}]

(* A certificate may be installed already, which counts as a request.      *)
SettingInit(t, certified) ==
    /\ topic = t
    /\ table = IF certified
               THEN [[k \in Rows |-> Null] EXCEPT !["activeKey"] = 1, !["cert"] = [key |-> 1, n |-> 1],
                                                  !["enforce"] = TRUE]
               ELSE [k \in Rows |-> Null]
    /\ made = IF certified THEN 1 ELSE 0
    /\ cache = [k \in Rows |-> Absent]
    /\ job = [j \in Slots |-> Waiting] /\ card = [j \in Slots |-> Closed]
    /\ agent = Null /\ lapsed = {}
    /\ spreading = {} /\ toldName = Null /\ missed = FALSE /\ torn = FALSE
    /\ requests = IF certified THEN 1 ELSE 0

---------------------------------------------------------------------------
(* Certificates.                                                           *)

certInfo(cert) == [key |-> cert.key, expired |-> cert \in lapsed]

validateCertAgainstKey(cert, key) == certInfo(cert).key = key /\ ~certInfo(cert).expired

Effective(k, v) == IF v = Null THEN Fallback[k] ELSE v

---------------------------------------------------------------------------
(* Which rows a request reads before it acts, and what it then writes.     *)

hourVal(body, got, k) == IF k \in DOMAIN body THEN body[k] ELSE Effective(k, got[k])

Known(job_) == DOMAIN job_.got
Learned(got, k, v) == [l \in DOMAIN got \cup {k} |-> IF l = k THEN v ELSE got[l]]

windowReads(r) ==
    {k \in {"idle", "max", "trans"} \ DOMAIN r.arg :
       \A i, l \in 1..3 : Windows[l] = k /\ i < l => Windows[i] \in DOMAIN r.arg \cup Known(r)} \ Known(r)

installReads(r) ==
    IF "pendingKey" \notin Known(r) THEN {"pendingKey"}
    ELSE IF r.got["pendingKey"] = Null THEN {"activeKey"} \ Known(r) ELSE {}

statusReads(r) ==
    IF "cert" \notin Known(r) THEN {"cert"}
    ELSE {IF r.got["cert"] = Null THEN "pendingKey" ELSE "enforce"} \ Known(r)

outboundReads(r) ==
    IF "enforce" \notin Known(r) THEN {"enforce"}
    ELSE IF r.got["enforce"] # TRUE THEN {}
    ELSE IF "cert" \notin Known(r) THEN {"cert"} ELSE {"activeKey"} \ Known(r)

(* The rows to read next: none when the request may act.                   *)
Reads(r) ==
    CASE r.kind = "put" -> windowReads(r)
      [] r.kind = "site" -> {"site"} \ Known(r)
      [] r.kind = "install" -> installReads(r)
      [] r.kind = "enforce" -> IF r.arg THEN {"cert"} \ Known(r) ELSE {}
      [] r.kind = "get" -> {r.arg} \ Known(r)
      [] r.kind = "status" -> statusReads(r)
      [] r.kind = "outbound" -> outboundReads(r)
      [] OTHER -> {}

(* The windows are validated together, given and stored ones alike.        *)
putWindows(r) ==
    LET eff == [k \in {"idle", "max", "trans"} |-> hourVal(r.arg, r.got, k)]
        put(k) == IF k \in DOMAIN r.arg THEN <<<<k, r.arg[k]>>>> ELSE << >>
    IN IF eff["max"] < eff["idle"] \/ eff["trans"] > eff["max"] THEN << >>
       ELSE put("idle") \o put("max") \o put("trans")

startSetup(key) == <<<<"pendingKey", key>>>>

installCert_CertFirst(r) ==
    LET pending == r.got["pendingKey"]
        key == IF pending # Null THEN pending ELSE r.got["activeKey"]
    IN IF key = Null \/ ~validateCertAgainstKey(r.arg, key) THEN << >>
       ELSE <<<<"cert", r.arg>>, <<"enforce", TRUE>>>>

(* The key moves before the certificate that belongs to it.                *)
installCert(r) ==
    LET pending == r.got["pendingKey"]
        key == IF pending # Null THEN pending ELSE r.got["activeKey"]
    IN IF key = Null \/ ~validateCertAgainstKey(r.arg, key) THEN << >>
       ELSE IF pending = Null THEN <<<<"cert", r.arg>>, <<"enforce", TRUE>>>>
       ELSE <<<<"activeKey", pending>>, <<"pendingKey", Null>>, <<"cert", r.arg>>, <<"enforce", TRUE>>>>

setEnforce(r) ==
    IF r.arg /\ (r.got["cert"] = Null \/ r.got["cert"] \in lapsed) THEN << >>
    ELSE <<<<"enforce", r.arg>>>>

mtlsReset == <<<<"cert", Null>>, <<"activeKey", Null>>, <<"pendingKey", Null>>, <<"enforce", FALSE>>>>

Writes(r) ==
    CASE r.kind = "put" -> putWindows(r)
      [] r.kind = "site" -> <<<<"site", r.arg>>>>
      [] r.kind = "gateKey" -> <<<<"gate", r.arg>>>>
      [] r.kind = "csr" -> startSetup(r.arg)
      [] r.kind = "install" -> installCert(r)
      [] r.kind = "enforce" -> setEnforce(r)
      [] r.kind = "reset" -> mtlsReset
      [] OTHER -> << >>

---------------------------------------------------------------------------
(* The cache.  A statement is answered after others have run.              *)

Stores_Late(j) == TRUE
Stores(j) == job[j].valid

(* invalidateSettingCache: reads under way may no longer fill the entry.   *)
invalidateSettingCache(k) ==
    [i \in Slots |-> IF job[i].step = "select" /\ job[i].sel = k
                     THEN [job[i] EXCEPT !.valid = FALSE] ELSE job[i]]

(* readRaw: a fresh entry answers at once.                                 *)
getSetting(j) ==
    /\ job[j].step = "reading"
    /\ \E k \in Reads(job[j]) :
         \/ /\ cache[k] # Absent
            /\ job' = [job EXCEPT ![j].got = Learned(@, k, cache[k])]
         \/ /\ cache[k] = Absent
            /\ job' = [job EXCEPT ![j].got = Learned(@, k, table[k]), ![j].step = "select", ![j].sel = k,
                                  ![j].valid = TRUE]
    /\ UNCHANGED <<topic, table, cache, card, agent, lapsed, made, spreading, toldName, missed, torn, requests>>

readRaw(j) ==
    /\ job[j].step = "select"
    /\ cache' = IF Stores(j) THEN [cache EXCEPT ![job[j].sel] = job[j].got[job[j].sel]] ELSE cache
    /\ job' = [job EXCEPT ![j].step = "reading", ![j].sel = Null, ![j].valid = FALSE]
    /\ UNCHANGED <<topic, table, card, agent, lapsed, made, spreading, toldName, missed, torn, requests>>

(* setSetting, up to the statement, and after its answer.                  *)
writeRow(j) ==
    /\ job[j].step = "writing" /\ job[j].writes # << >>
    /\ table' = [table EXCEPT ![Head(job[j].writes)[1]] = Head(job[j].writes)[2]]
    /\ job' = [job EXCEPT ![j].step = "written"]
    /\ UNCHANGED <<topic, cache, card, agent, lapsed, made, spreading, toldName, missed, torn, requests>>

writeRaw(j) ==
    /\ job[j].step = "written"
    /\ LET w == Head(job[j].writes)
       IN /\ cache' = [cache EXCEPT ![w[1]] = w[2]]
          /\ job' = [invalidateSettingCache(w[1]) EXCEPT ![j].step = "writing", ![j].writes = Tail(@)]
    /\ UNCHANGED <<topic, table, card, agent, lapsed, made, spreading, toldName, missed, torn, requests>>

CacheExpires(k) ==
    /\ cache[k] # Absent
    /\ cache' = [cache EXCEPT ![k] = Absent]
    /\ UNCHANGED <<topic, table, job, card, agent, lapsed, made, spreading, toldName, missed, torn, requests>>

---------------------------------------------------------------------------
(* Requests.                                                               *)

Begin(j, kind, arg) ==
    /\ ~Busy(j) /\ requests < MaxRequests[topic] /\ requests' = requests + 1
    /\ LET alone == \A i \in Slots : ~Mutating(i)
           r == [Waiting EXCEPT !.kind = kind, !.arg = arg, !.step = "reading", !.clean = alone]
       IN /\ job' = [i \in Slots |-> IF i = j THEN r
                                     ELSE IF kind \in Mutators THEN [job[i] EXCEPT !.clean = FALSE]
                                     ELSE job[i]]
          /\ torn' = (torn \/ (kind \in Mutators /\ ~alone))
    /\ UNCHANGED <<topic, table, cache, agent, lapsed, spreading, toldName, missed>>

Plain(j, kind, arg) == Begin(j, kind, arg) /\ UNCHANGED <<card, made>>

putSettings(j) ==
    \/ topic = "windows" /\ \E body \in Bodies : Plain(j, "put", body)
    \/ topic = "site" /\ \E name \in {1, 2} : Plain(j, "site", name)

getSettings(j) ==
    \/ topic = "windows" /\ \E k \in {"idle", "max", "trans"} : Plain(j, "get", k)
    \/ topic = "site" /\ Plain(j, "get", "gate")

testEmail(j) == topic = "site" /\ Plain(j, "get", "site")
generateGateKey(j) == topic = "site" /\ \E n \in {1, 2} : Plain(j, "gateKey", n)

(* The card offers setup or, on a configured row, the switch, a renewal    *)
(* and the reset.                                                          *)
MtlsCard(j) ==
    /\ topic = "mtls" /\ ~Busy(j)
    /\ \E m \in (CASE card[j].sees = "none" -> {"setup"}
                   [] card[j].sees \in {"on", "off", "expired"} -> {"renew", "reset"}
                   [] OTHER -> {}) :
         /\ card[j].modal # m
         /\ card' = [card EXCEPT ![j].modal = m, ![j].csr = 0]
    /\ UNCHANGED <<topic, table, cache, job, agent, lapsed, made, spreading, toldName, missed, torn, requests>>

generateCsr(j) ==
    /\ card[j].modal = "setup" /\ card[j].csr = 0
    /\ made' = made + 1
    /\ Begin(j, "csr", made + 1) /\ UNCHANGED card

pasteCert(j) ==
    /\ card[j].modal = "renew" \/ (card[j].modal = "setup" /\ card[j].csr # 0)
    /\ \E c \in Certs : Plain(j, "install", c)

toggleEnforce(j) ==
    \E on \in BOOLEAN :
      /\ card[j].sees = IF on THEN "off" ELSE "on"
      /\ card' = [card EXCEPT ![j].sees = IF on THEN "on" ELSE "off"]
      /\ Begin(j, "enforce", on) /\ UNCHANGED made

resetCert(j) == card[j].modal = "reset" /\ Plain(j, "reset", Null)
loadMtls(j) == topic = "mtls" /\ card[j].sees = "nothing" /\ Plain(j, "status", Null)
deliver(j) == topic = "mtls" /\ Plain(j, "outbound", Null)

Decide(j) ==
    /\ job[j].step = "reading" /\ job[j].kind # "outbound" /\ Reads(job[j]) = {}
    /\ job' = [job EXCEPT ![j].step = "writing", ![j].writes = Writes(job[j])]
    /\ UNCHANGED <<topic, table, cache, card, agent, lapsed, made, spreading, toldName, missed, torn, requests>>

getStatus(r) ==
    IF r.got["cert"] = Null THEN "none"
    ELSE IF r.got["cert"] \in lapsed THEN "expired"
    ELSE IF r.got["enforce"] = TRUE THEN "on" ELSE "off"

(* The card after the answer: it reads the status again unless a form is   *)
(* still open (a refused certificate).                                     *)
Answered(j) ==
    LET r == job[j]
    IN CASE r.kind = "status" -> [card[j] EXCEPT !.sees = getStatus(r)]
         [] r.kind = "csr" -> [card[j] EXCEPT !.csr = r.arg]
         [] r.kind = "install" /\ installCert(r) = << >> -> card[j]
         [] r.kind = "install" /\ installCert(r) # << >> -> Closed
         [] r.kind \in {"enforce", "reset"} -> Closed
         [] OTHER -> card[j]

(* The end of a request; a changed site name is announced in the           *)
(* background, and announcements may overtake each other.  The row is      *)
(* written by then: when the applications to tell cannot be read, the      *)
(* request fails and nobody is told.                                       *)
Finish(j) ==
    /\ job[j].step = "writing" /\ job[j].writes = << >>
    /\ LET renamed == job[j].kind = "site" /\ job[j].got["site"] # job[j].arg
       IN /\ \/ spreading' = (IF renamed THEN spreading \cup {job[j].arg} ELSE spreading) /\ UNCHANGED missed
             \/ renamed /\ missed' = TRUE /\ UNCHANGED spreading
          /\ torn' = (torn \/ (renamed /\ spreading # {}))
    /\ card' = [card EXCEPT ![j] = Answered(j)]
    /\ job' = [job EXCEPT ![j] = Waiting]
    /\ UNCHANGED <<topic, table, cache, agent, lapsed, made, toldName, requests>>

(* The background call takes its transaction, or fails with a warning.     *)
enqueueName(name) ==
    /\ name \in spreading /\ spreading' = spreading \ {name}
    /\ \/ toldName' = name /\ missed' = FALSE
       \/ missed' = TRUE /\ UNCHANGED toldName
    /\ UNCHANGED <<topic, table, cache, job, card, agent, lapsed, made, torn, requests>>

---------------------------------------------------------------------------
(* Outbound calls.                                                         *)

outboundIdentity(r) ==
    IF r.got["enforce"] # TRUE \/ r.got["cert"] = Null \/ r.got["activeKey"] = Null
       \/ r.got["cert"] \in lapsed
    THEN Null ELSE [cert |-> r.got["cert"], key |-> r.got["activeKey"]]

(* s2sFetch: the dispatcher is rebuilt when the certificate changes, and   *)
(* the call keeps the one it was given.                                    *)
s2sFetch(j) ==
    /\ job[j].step = "reading" /\ job[j].kind = "outbound" /\ Reads(job[j]) = {}
    /\ LET id == IF job[j].got["enforce"] # TRUE THEN Null ELSE outboundIdentity(job[j])
       IN agent' = IF id = Null THEN Null
                   ELSE IF agent # Null /\ agent.cert = id.cert THEN agent ELSE id
    /\ job' = [job EXCEPT ![j].step = "sent", ![j].arg = agent']
    /\ UNCHANGED <<topic, table, cache, card, lapsed, made, spreading, toldName, missed, torn, requests>>

Delivered(j) ==
    /\ job[j].step = "sent"
    /\ job' = [job EXCEPT ![j] = Waiting]
    /\ UNCHANGED <<topic, table, cache, card, agent, lapsed, made, spreading, toldName, missed, torn, requests>>

---------------------------------------------------------------------------
(* A statement fails; the process stops; a certificate expires.            *)

StatementFails(j) ==
    /\ job[j].step = "writing" /\ job[j].writes # << >>
    /\ job' = [job EXCEPT ![j] = Waiting] /\ torn' = TRUE
    /\ card' = [card EXCEPT ![j] = IF job[j].kind \in {"enforce", "reset"} THEN Closed ELSE @]
    /\ UNCHANGED <<topic, table, cache, agent, lapsed, made, spreading, toldName, missed, requests>>

Crash ==
    /\ requests > 0 /\ job' = [j \in Slots |-> Waiting] /\ cache' = [k \in Rows |-> Absent]
    /\ card' = [j \in Slots |-> Closed]
    /\ agent' = Null /\ spreading' = {}
    /\ torn' = (torn \/ spreading # {} \/ \E j \in Slots : Mutating(j))
    /\ UNCHANGED <<topic, table, lapsed, made, toldName, missed, requests>>

Lapse ==
    /\ table["cert"] # Null /\ lapsed' = lapsed \cup {table["cert"]} /\ lapsed' # lapsed
    /\ UNCHANGED <<topic, table, cache, job, card, agent, made, spreading, toldName, missed, torn, requests>>

SettingNext ==
    \/ \E j \in Slots :
         \/ putSettings(j) \/ getSettings(j) \/ testEmail(j) \/ generateGateKey(j)
         \/ MtlsCard(j) \/ generateCsr(j) \/ pasteCert(j) \/ toggleEnforce(j) \/ resetCert(j)
         \/ loadMtls(j) \/ deliver(j)
         \/ getSetting(j) \/ readRaw(j) \/ Decide(j) \/ writeRow(j) \/ writeRaw(j) \/ Finish(j)
         \/ s2sFetch(j) \/ Delivered(j) \/ StatementFails(j)
    \/ \E k \in Rows : CacheExpires(k)
    \/ \E name \in {1, 2} : enqueueName(name)
    \/ Crash \/ Lapse

SettingSpec ==
    /\ \E t \in {"windows", "site", "mtls"}, certified \in BOOLEAN : SettingInit(t, certified)
    /\ [][SettingNext]_settingVars

---------------------------------------------------------------------------
(* What a reader sees: the cached value, or the row.                       *)
Seen(k) == IF cache[k] # Absent THEN cache[k] ELSE table[k]

WindowsOrdered(view) ==
    /\ Effective("idle", view["idle"]) <= Effective("max", view["max"])
    /\ Effective("trans", view["trans"]) <= Effective("max", view["max"])

IdentityMatches(view) == view["cert"] # Null => view["activeKey"] = view["cert"].key

SettingTypeOK ==
    /\ \A k \in {"idle", "max", "trans"} : table[k] = Null \/ \E b \in Bodies : k \in DOMAIN b /\ b[k] = table[k]
    /\ \A j \in Slots : job[j].step \in {"idle", "reading", "select", "writing", "written", "sent"}
    /\ requests \in 0..MaxRequests[topic]

(* Rows that are validated together agree, in the table and in what        *)
(* readers see of it, whenever no writer is at work: the session windows   *)
(* (admin.ts), the certificate and its key (mtls.ts), the site name and    *)
(* what the applications were told, unless the last announcement was lost  *)
(* (admin.ts:779, 785-787), which saving the same name does not repair.    *)
(* Else only writers that overlapped or stopped half-way leave them apart, *)
(* and never a reader that filled the cache late (settings.ts).  An        *)
(* outbound call that no writer disturbed presents a certificate with its  *)
(* own key (s2sFetch.ts).                                                  *)
SettingsCoherent ==
    ~torn =>
      /\ (\A j \in Slots : ~Mutating(j)) =>
           \A view \in {table, [k \in Rows |-> Seen(k)]} : WindowsOrdered(view) /\ IdentityMatches(view)
      /\ (\A j \in Slots : ~Mutating(j)) /\ spreading = {} => missed \/ toldName = table["site"]
      /\ \A j \in Slots : job[j].step = "sent" /\ job[j].clean /\ job[j].arg # Null
                            => job[j].arg.key = job[j].arg.cert.key
=============================================================================
