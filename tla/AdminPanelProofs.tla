-------------------------- MODULE AdminPanelProofs --------------------------
(***************************************************************************)
(* Proofs about AdminPanel, for any users, tenants, rows, slots and bounds,*)
(* and about AdminForms, for any editors, clients and bounds.              *)
(*                                                                         *)
(* PanelInv adds to the two properties what a request in flight carries:   *)
(* the membership its tenant was admitted on or the mark that nobody       *)
(* checked the tenant it named, the author its ability was                 *)
(* decided on, the write behind every buffered entry; and it replaces "the *)
(* request of a write is in flight" by "its entry is in the buffer, or is  *)
(* the one about to be emitted".                                           *)
(***************************************************************************)
EXTENDS AdminPanel, AdminForms, SequenceTheorems, TLAPS

\* There is a write that the entry e reports truly.
Witnessed(e, chg) == \E c \in chg : c.entry = e /\ c.rowTenant = e.tenant

\* What a request past its checks carries.
RequestOK(r, adm, nam, chg) ==
    /\ r.pc \in {"decide", "handle", "emit"}
         => <<r.actor, r.tenant>> \in adm \/ (r.via = "panel" /\ r.nr \in nam)
    /\ r.via = "panel" => r.actor \in Admins
    /\ r.pc = "handle" /\ r.via = "api" /\ r.action # "create"
         => r.actor \in Admins \/ r.judged = r.actor
    /\ \A e \in r.buffer : Witnessed(e, chg)
    /\ r.pc = "emit" => r.via = "panel" /\ Witnessed(EntryOf(r, Head(r.ids)), chg)

\* The entry e is still on its way to the log in the request r.
Pending(r, e) ==
    /\ r.pc # "idle"
    /\ r.nr = e.nr
    /\ e \in r.buffer \/ (r.pc = "emit" /\ e = EntryOf(r, Head(r.ids)))

Accounted(c) ==
    \/ c.entry \in log
    \/ c.entry.nr \in lost
    \/ \E q \in Slots : Pending(request[q], c.entry)

CookieInv == \A a \in Admins : cookie[a] # None => <<a, cookie[a]>> \in admitted
RequestInv == \A q \in Slots : request[q].pc # "idle" => RequestOK(request[q], admitted, named, changes)
LogInv == \A e \in log : Witnessed(e, changes)
AccountInv == \A c \in changes : c.via = "panel" => Accounted(c)

PanelInv == TypeOK /\ CookieInv /\ RequestInv /\ ChangesEntitled /\ LogInv /\ AccountInv

-----------------------------------------------------------------------------
(* What the steps of one request have in common.                            *)

\* Nothing on its way to the log of slot q gets lost when r takes its place.
Keeps(q, r) ==
    \A e : Pending(request[q], e) => Pending(r, e) \/ e \in log' \/ e.nr \in lost'

Grows ==
    /\ changes \subseteq changes' /\ admitted \subseteq admitted' /\ named \subseteq named'
    /\ log \subseteq log' /\ lost \subseteq lost'

LEMMA RecordOK ==
    ASSUME TypeOK, NEW q \in Slots, request[q].pc # "idle"
    PROVE  request[q] \in Live /\ Len(request[q].ids) \in 1..2
  BY DEF TypeOK, At, Idle

\* The ids of a request: a first one and, with two, a rest.
LEMMA Ids ==
    ASSUME TypeOK, NEW q \in Slots, request[q].pc # "idle"
    PROVE  /\ Head(request[q].ids) \in RowIds
           /\ Len(request[q].ids) > 1 => /\ Tail(request[q].ids) \in Seq(RowIds)
                                         /\ Len(Tail(request[q].ids)) \in 1..2
  <1>1. request[q].ids \in Seq(RowIds) /\ Len(request[q].ids) \in 1..2
    BY RecordOK DEF Live
  <1>2. request[q].ids # << >>
    BY <1>1
  <1>3. /\ Head(request[q].ids) \in RowIds
        /\ Tail(request[q].ids) \in Seq(RowIds)
        /\ Len(Tail(request[q].ids)) = Len(request[q].ids) - 1
    <2> DEFINE s == request[q].ids
    <2>1. s \in Seq(RowIds) /\ s # << >>
      BY <1>1, <1>2
    <2> HIDE DEF s
    <2>2. Head(s) \in RowIds /\ Tail(s) \in Seq(RowIds) /\ Len(Tail(s)) = Len(s) - 1
      BY <2>1, HeadTailProperties
    <2> QED
      BY <2>2 DEF s
  <1>4. Len(request[q].ids) > 1 => Len(Tail(request[q].ids)) \in 1..2
    <2> DEFINE n == Len(request[q].ids)
               m == Len(Tail(request[q].ids))
    <2>1. n \in 1..2 /\ m = n - 1
      BY <1>1, <1>3
    <2> HIDE DEF n, m
    <2>2. n > 1 => m \in 1..2
      BY <2>1
    <2> QED
      BY <2>2, Zenon DEF n, m
  <1> QED
    BY <1>3, <1>4, Zenon

LEMMA EntryType ==
    ASSUME TypeOK, NEW q \in Slots, request[q].pc # "idle", NEW id \in RowIds
    PROVE  EntryOf(request[q], id) \in Entry
  <1>1. request[q] \in Live
    BY RecordOK
  <1> QED
    BY <1>1 DEF Live, Entry, EntryOf

LEMMA RequestOKGrows ==
    ASSUME NEW r, NEW adm, NEW adm2, NEW nam, NEW nam2, NEW chg, NEW chg2,
           RequestOK(r, adm, nam, chg), adm \subseteq adm2, nam \subseteq nam2, chg \subseteq chg2
    PROVE  RequestOK(r, adm2, nam2, chg2)
  BY Zenon DEF RequestOK, Witnessed

\* A step of slot q that leaves a good request there.
LEMMA Frame ==
    ASSUME PanelInv, NEW q \in Slots, NEW r \in Live \union {Idle}, Set(q, r), Grows,
           r.pc # "idle" => Len(r.ids) \in 1..2 /\ RequestOK(r, admitted', named', changes'),
           Keeps(q, r)
    PROVE  /\ request' \in [Slots -> Live \union {Idle}]
           /\ \A p \in Slots : request'[p].pc # "idle" => Len(request'[p].ids) \in 1..2
           /\ \A p \in Slots : request'[p].pc # "idle"
                                 => RequestOK(request'[p], admitted', named', changes')
           /\ \A c \in changes : c.via = "panel" => Accounted(c)'
  <1>1. request \in [Slots -> Live \union {Idle}]
    BY DEF PanelInv, TypeOK
  <1>2. request' = [request EXCEPT ![q] = r]
    BY DEF Set
  <1>3. request'[q] = r /\ \A p \in Slots \ {q} : request'[p] = request[p]
    BY <1>1, <1>2
  <1>4. request' \in [Slots -> Live \union {Idle}]
    BY <1>1, <1>2
  <1>5. \A p \in Slots : request'[p].pc # "idle" => Len(request'[p].ids) \in 1..2
    BY <1>3, RecordOK DEF PanelInv
  <1>6. ASSUME NEW p \in Slots, request'[p].pc # "idle"
        PROVE  RequestOK(request'[p], admitted', named', changes')
    <2>1. CASE p = q
      BY <2>1, <1>3, <1>6
    <2>2. CASE p # q
      <3>1. RequestOK(request[p], admitted, named, changes)
        BY <2>2, <1>3, <1>6 DEF PanelInv, RequestInv
      <3> QED
        BY <3>1, <2>2, <1>3, RequestOKGrows DEF Grows
    <2> QED
      BY <2>1, <2>2
  <1>7. ASSUME NEW c \in changes, c.via = "panel"
        PROVE  \/ c.entry \in log'
               \/ c.entry.nr \in lost'
               \/ \E p \in Slots : Pending(request'[p], c.entry)
    <2>1. Accounted(c)
      BY <1>7 DEF PanelInv, AccountInv
    <2>2. CASE c.entry \in log \/ c.entry.nr \in lost
      BY <2>2 DEF Grows
    <2>3. CASE \E p \in Slots : Pending(request[p], c.entry)
      <3>1. PICK p \in Slots : Pending(request[p], c.entry)
        BY <2>3
      <3>2. CASE p = q
        BY <3>1, <3>2, <1>3 DEF Keeps
      <3>3. CASE p # q
        BY <3>1, <3>3, <1>3
      <3> QED
        BY <3>2, <3>3
    <2> QED
      BY <2>1, <2>2, <2>3 DEF Accounted
  <1> QED
    BY <1>4, <1>5, <1>6, <1>7 DEF Accounted

\* The state a step of slot q may leave outside of the slot.
Around ==
    /\ TableOK' /\ UNCHANGED access
    /\ started' \in 0..MaxRequests
    /\ log' \subseteq Entry /\ changes' \subseteq Change
    /\ admitted' \subseteq Users \X Tenants
    /\ named' \subseteq 1..MaxRequests /\ lost' \subseteq 1..MaxRequests

LEMMA StepKeepsInv ==
    ASSUME PanelInv, NEW q \in Slots, NEW r \in Live \union {Idle}, Set(q, r), Grows, Around,
           r.pc # "idle" => Len(r.ids) \in 1..2 /\ RequestOK(r, admitted', named', changes'),
           Keeps(q, r),
           \A c \in changes' \ changes : Entitled(c)' /\ (c.via = "panel" => Accounted(c)'),
           \A e \in log' \ log : Witnessed(e, changes')
    PROVE  PanelInv'
  <1>1. /\ request' \in [Slots -> Live \union {Idle}]
        /\ \A p \in Slots : request'[p].pc # "idle" => Len(request'[p].ids) \in 1..2
        /\ \A p \in Slots : request'[p].pc # "idle"
                              => RequestOK(request'[p], admitted', named', changes')
        /\ \A c \in changes : c.via = "panel" => Accounted(c)'
    BY Frame
  <1>2. TypeOK'
    BY <1>1 DEF PanelInv, TypeOK, Around, access, At
  <1>3. CookieInv'
    BY DEF PanelInv, CookieInv, Around, access, Grows
  <1>4. RequestInv'
    BY <1>1 DEF RequestInv
  <1>5. ChangesEntitled'
    <2>1. ASSUME NEW c \in changes
          PROVE  Entitled(c)'
      <3>1. Entitled(c)
        BY DEF PanelInv, ChangesEntitled
      <3> QED
        BY <3>1 DEF Entitled, LetIn, Grows
    <2> QED
      BY <2>1 DEF ChangesEntitled
  <1>6. LogInv'
    <2>1. ASSUME NEW e \in log
          PROVE  Witnessed(e, changes')
      <3>1. Witnessed(e, changes)
        BY DEF PanelInv, LogInv
      <3> QED
        BY <3>1 DEF Witnessed, Grows
    <2> QED
      BY <2>1 DEF LogInv
  <1>7. AccountInv'
    BY <1>1 DEF AccountInv
  <1> QED
    BY <1>2, <1>3, <1>4, <1>5, <1>6, <1>7 DEF PanelInv

\* A step of slot q that writes neither the table nor the log.
LEMMA QuietStep ==
    ASSUME PanelInv, NEW q \in Slots, NEW r \in Live \union {Idle}, Set(q, r),
           UNCHANGED <<table, access, log, changes>>,
           started' \in 0..MaxRequests,
           admitted \subseteq admitted', admitted' \subseteq Users \X Tenants,
           named \subseteq named', named' \subseteq 1..MaxRequests,
           lost \subseteq lost', lost' \subseteq 1..MaxRequests,
           r.pc # "idle" => Len(r.ids) \in 1..2 /\ RequestOK(r, admitted', named', changes'),
           Keeps(q, r)
    PROVE  PanelInv'
  <1>1. Grows
    BY DEF Grows
  <1>2. Around
    BY DEF Around, PanelInv, TypeOK, TableOK, Exists
  <1> QED
    BY <1>1, <1>2, StepKeepsInv

-----------------------------------------------------------------------------
(* The actions.                                                             *)

LEMMA InitKeepsInv == ASSUME Init PROVE PanelInv
  <1>1. TypeOK
    <2>1. table \in [RowIds -> Row \union {None}]
      BY PanelConstants DEF Init
    <2>2. members \subseteq Users \X Tenants
      BY PanelConstants DEF Init
    <2>3. cookie \in [Admins -> Tenants \union {None}]
      BY DEF Init
    <2>4. request \in [Slots -> Live \union {Idle}] /\ \A q \in Slots : request[q].pc = "idle"
      BY DEF Init, Idle
    <2>5. moves \in 0..MaxMoves /\ started \in 0..MaxRequests
      BY PanelConstants DEF Init
    <2> QED
      BY <2>1, <2>2, <2>3, <2>4, <2>5 DEF Init, TypeOK, TableOK, At
  <1>2. CookieInv
    BY DEF Init, CookieInv
  <1>3. RequestInv
    BY DEF Init, RequestInv, Idle
  <1> QED
    BY <1>1, <1>2, <1>3 DEF Init, PanelInv, ChangesEntitled, LogInv, AccountInv

LEMMA MembershipMovesInv ==
    ASSUME PanelInv, NEW u \in Users, NEW t \in Tenants, MembershipMoves(u, t)
    PROVE  PanelInv'
  <1>1. UNCHANGED <<table, cookie, request, started, log, changes, admitted, named, lost>>
    BY DEF MembershipMoves, history
  <1>2. members' \subseteq Users \X Tenants
    BY DEF MembershipMoves, PanelInv, TypeOK
  <1>3. moves' \in 0..MaxMoves
    BY PanelConstants DEF MembershipMoves, PanelInv, TypeOK
  <1>4. TypeOK'
    BY <1>1, <1>2, <1>3 DEF PanelInv, TypeOK, TableOK, At
  <1>5. CookieInv' /\ RequestInv' /\ ChangesEntitled' /\ LogInv' /\ AccountInv'
    BY <1>1 DEF PanelInv, CookieInv, RequestInv, ChangesEntitled, Entitled, LetIn, LogInv,
                AccountInv, Accounted
  <1> QED
    BY <1>4, <1>5 DEF PanelInv

LEMMA SelectTenantInv ==
    ASSUME PanelInv, NEW a \in Admins, NEW t \in Tenants, SelectTenant(a, t)
    PROVE  PanelInv'
  <1>1. UNCHANGED <<table, members, moves, request, started, log, changes, named, lost>>
    BY DEF SelectTenant
  <1>2. cookie' \in [Admins -> Tenants \union {None}] /\ cookie' = [cookie EXCEPT ![a] = t]
    BY DEF SelectTenant, PanelInv, TypeOK
  <1>3. admitted' = admitted \union {<<a, t>>} /\ admitted' \subseteq Users \X Tenants
    BY PanelConstants DEF SelectTenant, PanelInv, TypeOK
  <1>4. TypeOK'
    BY <1>1, <1>2, <1>3 DEF PanelInv, TypeOK, TableOK, At
  <1>5. CookieInv'
    BY <1>2, <1>3 DEF PanelInv, TypeOK, CookieInv
  <1>6. RequestInv'
    <2>1. ASSUME NEW p \in Slots, request[p].pc # "idle"
          PROVE  RequestOK(request[p], admitted', named, changes)
      <3>1. RequestOK(request[p], admitted, named, changes)
        BY <2>1 DEF PanelInv, RequestInv
      <3> QED
        BY <3>1, <1>1, <1>3, RequestOKGrows
    <2> QED
      BY <2>1, <1>1 DEF RequestInv
  <1>7. ChangesEntitled'
    <2>1. ASSUME NEW c \in changes
          PROVE  Entitled(c)'
      <3>1. Entitled(c)
        BY DEF PanelInv, ChangesEntitled
      <3> QED
        BY <3>1, <1>1, <1>3 DEF Entitled, LetIn
    <2> QED
      BY <2>1, <1>1 DEF ChangesEntitled
  <1>8. LogInv' /\ AccountInv'
    BY <1>1 DEF PanelInv, LogInv, AccountInv, Accounted
  <1> QED
    BY <1>4, <1>5, <1>6, <1>7, <1>8 DEF PanelInv

\* A slot that starts a request: the work is one of Works and the tenant is
\* still to be checked, was admitted, or is one that nobody checks.
LEMMA BeginInv ==
    ASSUME PanelInv, NEW q \in Slots, NEW u \in Users, NEW via \in {"panel", "api"},
           NEW t \in Tenants, NEW work \in Works(via), NEW pc \in {"check", "handle"},
           Begin(q, u, via, t, work, pc),
           named \subseteq named', named' \subseteq 1..MaxRequests,
           pc = "handle" => /\ via = "panel"
                            /\ <<u, t>> \in admitted \/ started + 1 \in named',
           via = "panel" => u \in Admins
    PROVE  PanelInv'
  <1> DEFINE r == [pc |-> pc, nr |-> started + 1, via |-> via, actor |-> u, tenant |-> t,
                   action |-> work.action, ids |-> work.ids, judged |-> None, buffer |-> {}]
  <1>1. /\ UNCHANGED <<table, access, log, changes, admitted, lost>>
        /\ started' = started + 1 /\ started < MaxRequests /\ started \in 0..MaxRequests
    BY DEF Begin, PanelInv, TypeOK
  <1>2. started' \in 0..MaxRequests /\ started + 1 \in 1..MaxRequests
    BY <1>1, PanelConstants
  <1>3. work.action \in Actions /\ work.ids \in Seq(RowIds) /\ Len(work.ids) \in 1..2
    <2>1. CASE \E a \in Actions, id \in RowIds : work = [action |-> a, ids |-> <<id>>]
      BY <2>1
    <2>2. CASE \E i, j \in RowIds : work = [action |-> "delete", ids |-> <<i, j>>]
      BY <2>2 DEF Actions
    <2> QED
      BY <2>1, <2>2 DEF Works
  <1>4. Set(q, r) /\ request[q] = Idle
    <2>1. Set(q, r) /\ request[q].pc = "idle"
      BY DEF Begin, At
    <2> QED
      BY <2>1 DEF PanelInv, TypeOK, Live
  <1>5. r \in Live
    BY <1>2, <1>3 DEF Live
  <1>6. RequestOK(r, admitted', named', changes')
    BY <1>1 DEF RequestOK
  <1>7. Keeps(q, r)
    BY <1>4 DEF Keeps, Pending, Idle
  <1>8. Len(r.ids) \in 1..2
    BY <1>3
  <1>9. admitted' \subseteq Users \X Tenants /\ lost' \subseteq 1..MaxRequests
    BY <1>1 DEF PanelInv, TypeOK
  <1> HIDE DEF r
  <1> QED
    BY <1>1, <1>2, <1>4, <1>5, <1>6, <1>7, <1>8, <1>9, QuietStep

LEMMA StartInv ==
    ASSUME PanelInv, NEW q \in Slots,
           \/ \E u \in Users : StartApi(q, u)
           \/ \E a \in Admins : StartPanel(q, a) \/ StartPanelNamed(q, a) \/ StartPanelBearer(q, a)
    PROVE  PanelInv'
  <1>1. ASSUME NEW u \in Users, StartApi(q, u)
        PROVE  PanelInv'
    <2>1. PICK t \in Tenants, work \in Works("api") : Begin(q, u, "api", t, work, "check")
      BY <1>1 DEF StartApi
    <2>2. named' = named /\ named' \subseteq 1..MaxRequests
      BY <1>1 DEF StartApi, PanelInv, TypeOK
    <2> QED
      BY <2>1, <2>2, BeginInv
  <1>2. ASSUME NEW a \in Admins, StartPanel(q, a)
        PROVE  PanelInv'
    <2>1. PICK work \in Works("panel") : Begin(q, a, "panel", cookie[a], work, "handle")
      BY <1>2 DEF StartPanel
    <2>2. cookie[a] \in Tenants /\ <<a, cookie[a]>> \in admitted /\ a \in Users
      BY <1>2, PanelConstants DEF StartPanel, PanelInv, TypeOK, CookieInv
    <2>3. named' = named /\ named' \subseteq 1..MaxRequests
      BY <1>2 DEF StartPanel, PanelInv, TypeOK
    <2> QED
      BY <2>1, <2>2, <2>3, BeginInv
  <1>3. ASSUME NEW a \in Admins, StartPanelBearer(q, a)
        PROVE  PanelInv'
    <2>1. PICK t \in Tenants, work \in Works("panel") : Begin(q, a, "panel", t, work, "check")
      BY <1>3 DEF StartPanelBearer
    <2>2. a \in Users /\ named' = named /\ named' \subseteq 1..MaxRequests
      BY <1>3, PanelConstants DEF StartPanelBearer, PanelInv, TypeOK
    <2> QED
      BY <2>1, <2>2, BeginInv
  <1>4. ASSUME NEW a \in Admins, StartPanelNamed(q, a)
        PROVE  PanelInv'
    <2>1. PICK t \in Tenants, work \in Works("panel") : Begin(q, a, "panel", t, work, "handle")
      BY <1>4 DEF StartPanelNamed
    <2>2. a \in Users /\ named' = named \union {started + 1}
      BY <1>4, PanelConstants DEF StartPanelNamed
    <2>3. started + 1 \in 1..MaxRequests
      <3>1. started < MaxRequests /\ started \in 0..MaxRequests
        BY <2>1 DEF Begin, PanelInv, TypeOK
      <3> QED
        BY <3>1, PanelConstants
    <2>4. named' \subseteq 1..MaxRequests
      BY <2>2, <2>3 DEF PanelInv, TypeOK
    <2> QED
      BY <2>1, <2>2, <2>4, BeginInv
  <1> QED
    BY <1>1, <1>2, <1>3, <1>4

\* A step that only moves the program counter of a request on.
LEMMA MoveInv ==
    ASSUME PanelInv, NEW q \in Slots, request[q].pc \notin {"idle", "emit"},
           NEW pc \in {"decide", "handle", "respond"}, NEW judged \in Users \union {None},
           Set(q, [request[q] EXCEPT !.pc = pc, !.judged = judged]),
           UNCHANGED <<table, access, started, log, changes, named, lost>>,
           admitted \subseteq admitted', admitted' \subseteq Users \X Tenants,
           RequestOK([request[q] EXCEPT !.pc = pc, !.judged = judged], admitted', named, changes)
    PROVE  PanelInv'
  <1> DEFINE r == [request[q] EXCEPT !.pc = pc, !.judged = judged]
  <1>1. request[q] \in Live /\ Len(request[q].ids) \in 1..2
    BY RecordOK DEF PanelInv
  <1>2. r \in Live
    BY <1>1 DEF Live
  <1>3. r.ids = request[q].ids /\ r.buffer = request[q].buffer /\ r.nr = request[q].nr /\ r.pc = pc
    BY <1>1 DEF Live
  <1>4. Set(q, r) /\ RequestOK(r, admitted', named', changes')
    OBVIOUS
  <1> HIDE DEF r
  <1>5. Keeps(q, r)
    BY <1>3 DEF Keeps, Pending
  <1>6. /\ started' \in 0..MaxRequests /\ lost' \subseteq 1..MaxRequests
        /\ named' \subseteq 1..MaxRequests
    BY DEF PanelInv, TypeOK
  <1> QED
    BY <1>1, <1>2, <1>3, <1>4, <1>5, <1>6, QuietStep

\* The same, of a step that leaves judged alone.
LEMMA GoInv ==
    ASSUME PanelInv, NEW q \in Slots, request[q].pc \notin {"idle", "emit"},
           NEW pc \in {"decide", "handle", "respond"},
           Set(q, [request[q] EXCEPT !.pc = pc]),
           UNCHANGED <<table, access, started, log, changes, named, lost>>,
           admitted \subseteq admitted', admitted' \subseteq Users \X Tenants,
           RequestOK([request[q] EXCEPT !.pc = pc], admitted', named, changes)
    PROVE  PanelInv'
  <1>1. request[q] \in Live
    BY RecordOK DEF PanelInv
  <1>2. [request[q] EXCEPT !.pc = pc] = [request[q] EXCEPT !.pc = pc, !.judged = request[q].judged]
    BY <1>1 DEF Live
  <1>3. request[q].judged \in Users \union {None}
    BY <1>1 DEF Live
  <1> QED
    BY <1>2, <1>3, MoveInv

\* The good request of a slot.
LEMMA HasOK ==
    ASSUME PanelInv, NEW q \in Slots, request[q].pc # "idle"
    PROVE  /\ request[q] \in Live
           /\ RequestOK(request[q], admitted, named, changes)
           /\ request[q].actor \in Users /\ request[q].tenant \in Tenants
           /\ request[q].via \in {"panel", "api"} /\ request[q].action \in Actions
  <1>1. request[q] \in Live
    BY RecordOK DEF PanelInv
  <1>2. RequestOK(request[q], admitted, named, changes)
    BY DEF PanelInv, RequestInv
  <1> QED
    BY <1>1, <1>2 DEF Live

LEMMA CheckMembershipInv ==
    ASSUME PanelInv, NEW q \in Slots, CheckMembership(q)
    PROVE  PanelInv'
  <1> DEFINE r == request[q]
  <1>1. r.pc = "check" /\ UNCHANGED <<table, access, started, log, changes, named, lost>>
    BY DEF CheckMembership, At
  <1>2. RequestOK(r, admitted, named, changes) /\ r \in Live /\ r.actor \in Users /\ r.tenant \in Tenants
    BY <1>1, HasOK
  <1>3. CASE <<r.actor, r.tenant>> \in members
    <2> DEFINE pc == IF r.via = "api" /\ r.action # "create" THEN "decide" ELSE "handle"
               n == [r EXCEPT !.pc = pc]
    <2>1. Set(q, n) /\ admitted' = admitted \union {<<r.actor, r.tenant>>}
      BY <1>3 DEF CheckMembership
    <2>2. /\ n.pc = pc /\ n.nr = r.nr /\ n.actor = r.actor /\ n.tenant = r.tenant /\ n.via = r.via
          /\ n.action = r.action /\ n.buffer = r.buffer /\ n.judged = r.judged
      BY <1>2 DEF Live
    <2>3. admitted' \subseteq Users \X Tenants /\ admitted \subseteq admitted'
      BY <1>2, <2>1 DEF PanelInv, TypeOK
    <2>4. RequestOK(n, admitted', named, changes)
      BY <2>1, <2>2, <1>2 DEF RequestOK
    <2> QED
      BY <1>1, <2>1, <2>3, <2>4, GoInv
  <1>4. CASE <<r.actor, r.tenant>> \notin members
    <2> DEFINE n == [r EXCEPT !.pc = "respond"]
    <2>1. Set(q, n) /\ admitted' = admitted
      BY <1>4 DEF CheckMembership
    <2>2. n.pc = "respond" /\ n.actor = r.actor /\ n.via = r.via /\ n.buffer = r.buffer
      BY <1>2 DEF Live
    <2>3. RequestOK(n, admitted', named, changes)
      BY <2>1, <2>2, <1>2 DEF RequestOK
    <2>4. admitted' \subseteq Users \X Tenants
      BY <2>1 DEF PanelInv, TypeOK
    <2> QED
      BY <1>1, <2>1, <2>3, <2>4, GoInv
  <1> QED
    BY <1>3, <1>4

\* The answer of an error or of a row that is not there.
LEMMA RespondInv ==
    ASSUME PanelInv, NEW q \in Slots, request[q].pc \in {"decide", "handle"},
           Set(q, [request[q] EXCEPT !.pc = "respond"]),
           UNCHANGED <<table, access, started, log, changes, admitted, named, lost>>
    PROVE  PanelInv'
  <1> DEFINE n == [request[q] EXCEPT !.pc = "respond"]
  <1>1. RequestOK(request[q], admitted, named, changes) /\ request[q] \in Live
    BY HasOK
  <1>2. /\ n.pc = "respond" /\ n.actor = request[q].actor /\ n.via = request[q].via
        /\ n.buffer = request[q].buffer
    BY <1>1 DEF Live
  <1>3. RequestOK(n, admitted', named, changes)
    BY <1>1, <1>2 DEF RequestOK
  <1>4. admitted' \subseteq Users \X Tenants
    BY DEF PanelInv, TypeOK
  <1> QED
    BY <1>3, <1>4, GoInv

LEMMA AuthorizeInv ==
    ASSUME PanelInv, NEW q \in Slots, Authorize(q)
    PROVE  PanelInv'
  <1> DEFINE r == request[q]
             id == Head(r.ids)
  <1>1. r.pc = "decide" /\ UNCHANGED <<table, access, started, log, changes, admitted, named, lost>>
    BY DEF Authorize, At, history
  <1>2. RequestOK(r, admitted, named, changes) /\ r \in Live
    BY <1>1, HasOK
  <1>3. CASE Found(r.tenant, id) /\ Can(r.actor, id)
    <2> DEFINE n == [r EXCEPT !.pc = "handle", !.judged = table[id].author]
    <2>1. Set(q, n)
      BY <1>3 DEF Authorize
    <2>2. table[id].author \in Users
      <3>1. table[id] \in Row
        BY <1>3 DEF Found, Active, WhereTenant, Exists, PanelInv, TypeOK, TableOK
      <3> QED
        BY <3>1 DEF Row
    <2>3. /\ n.pc = "handle" /\ n.nr = r.nr /\ n.actor = r.actor /\ n.tenant = r.tenant /\ n.via = r.via
          /\ n.action = r.action /\ n.buffer = r.buffer /\ n.judged = table[id].author
      BY <1>2 DEF Live
    <2>4. r.actor \in Admins \/ table[id].author = r.actor
      BY <1>3 DEF Can
    <2>5. RequestOK(n, admitted', named, changes)
      BY <1>1, <1>2, <2>3, <2>4 DEF RequestOK
    <2>6. admitted' \subseteq Users \X Tenants
      BY <1>1 DEF PanelInv, TypeOK
    <2> QED
      BY <1>1, <2>1, <2>2, <2>5, <2>6, MoveInv
  <1>4. CASE ~(Found(r.tenant, id) /\ Can(r.actor, id))
    <2>1. Set(q, [r EXCEPT !.pc = "respond"])
      BY <1>4 DEF Authorize
    <2> QED
      BY <1>1, <2>1, RespondInv
  <1> QED
    BY <1>3, <1>4

LEMMA HandleThrowsInv ==
    ASSUME PanelInv, NEW q \in Slots, HandleThrows(q)
    PROVE  PanelInv'
  BY RespondInv DEF HandleThrows, At, history

-----------------------------------------------------------------------------
(* Writes.                                                                  *)

\* A write of the row id: its change is entitled, and its entry is pending
\* when the panel made it.
LEMMA WrittenInv ==
    ASSUME PanelInv, NEW q \in Slots, request[q].pc = "handle", NEW id \in RowIds,
           id = Head(request[q].ids), NEW rowTenant, rowTenant = request[q].tenant,
           Written(q, id, rowTenant),
           TableOK', UNCHANGED <<access, started, log, admitted, named, lost>>
    PROVE  PanelInv'
  <1> DEFINE r == request[q]
             n == [r EXCEPT !.pc = IF r.via = "panel" THEN "emit" ELSE "respond"]
             e == EntryOf(r, id)
  <1>0. PICK d : /\ d = [entry |-> e, via |-> r.via, rowTenant |-> rowTenant, judged |-> r.judged]
                 /\ changes' = changes \union {d}
    BY DEF Written
  <1>1. changes' = changes \union {d} /\ Set(q, n)
    BY <1>0 DEF Written
  <1>2. r \in Live /\ RequestOK(r, admitted, named, changes) /\ Len(r.ids) \in 1..2
    BY HasOK, RecordOK DEF PanelInv
  <1>3. e \in Entry
    BY EntryType DEF PanelInv
  <1>4. /\ n.pc = (IF r.via = "panel" THEN "emit" ELSE "respond")
        /\ n.nr = r.nr /\ n.actor = r.actor /\ n.tenant = r.tenant /\ n.via = r.via
        /\ n.action = r.action /\ n.buffer = r.buffer /\ n.ids = r.ids /\ n.judged = r.judged
    BY <1>2 DEF Live
  <1>5. n \in Live
    BY <1>2 DEF Live
  <1>6. e.tenant = r.tenant /\ e.actor = r.actor /\ e.nr = r.nr /\ e.action = r.action
    BY DEF EntryOf
  <1>7. EntryOf(n, Head(n.ids)) = e
    BY <1>4 DEF EntryOf
  <1>8. d \in Change
    BY <1>0, <1>2, <1>3 DEF Change, Live
  <1>9. d.entry = e /\ d.via = r.via /\ d.rowTenant = r.tenant /\ d.judged = r.judged
    BY <1>0
  <1> HIDE DEF n, e
  <1>10. Witnessed(e, changes')
    BY <1>1, <1>6, <1>9 DEF Witnessed
  <1>11. RequestOK(r, admitted', named', changes')
    BY <1>1, <1>2, RequestOKGrows
  <1>12. RequestOK(n, admitted', named', changes')
    BY <1>4, <1>7, <1>10, <1>11 DEF RequestOK
  <1>13. Keeps(q, n)
    BY <1>4 DEF Keeps, Pending
  <1>14. Entitled(d)'
    <2>1. r.via = "panel" => r.actor \in Admins
      BY <1>2 DEF RequestOK
    <2>2. <<r.actor, r.tenant>> \in admitted' \/ (r.via = "panel" /\ r.nr \in named')
      BY <1>2 DEF RequestOK
    <2>3. r.via = "api" /\ r.action # "create" => r.actor \in Admins \/ r.judged = r.actor
      BY <1>2 DEF RequestOK
    <2> QED
      BY <2>1, <2>2, <2>3, <1>6, <1>9 DEF Entitled, LetIn
  <1>15. d.via = "panel" => Accounted(d)'
    <2>1. request'[q] = n
      BY <1>1 DEF Set, PanelInv, TypeOK
    <2>2. d.via = "panel" => Pending(n, e)
      BY <1>4, <1>6, <1>7, <1>9 DEF Pending
    <2> QED
      BY <2>1, <2>2, <1>9 DEF Accounted
  <1>16. Grows
    BY <1>1 DEF Grows
  <1>17. Around
    <2>1. /\ started' \in 0..MaxRequests /\ lost' \subseteq 1..MaxRequests
          /\ named' \subseteq 1..MaxRequests
      BY DEF PanelInv, TypeOK
    <2>2. changes' \subseteq Change /\ log' \subseteq Entry /\ admitted' \subseteq Users \X Tenants
      BY <1>1, <1>8 DEF PanelInv, TypeOK
    <2> QED
      BY <2>1, <2>2 DEF Around
  <1>18. \A c \in changes' \ changes : Entitled(c)' /\ (c.via = "panel" => Accounted(c)')
    BY <1>1, <1>14, <1>15
  <1> QED
    BY <1>1, <1>2, <1>4, <1>5, <1>12, <1>13, <1>16, <1>17, <1>18, StepKeepsInv

\* The row a statement finds belongs to the tenant of the frame.
LEMMA FoundRow ==
    ASSUME TableOK, NEW t \in Tenants, NEW id \in RowIds, Found(t, id)
    PROVE  table[id] \in Row /\ table[id].tenant = t
  BY DEF Found, Active, WhereTenant, Exists, TableOK

LEMMA CreateType ==
    ASSUME TableOK, NEW t \in Tenants, NEW id \in RowIds, NEW values \in Row,
           Create(t, id, values)
    PROVE  TableOK'
  <1>1. [values EXCEPT !.tenant = t] \in Row
    BY DEF Row
  <1> QED
    BY <1>1 DEF Create, TableOK

LEMMA UpdateType ==
    ASSUME TableOK, NEW id \in RowIds, NEW values \in Row, table[id] \in Row, Update(id, values)
    PROVE  TableOK'
  <1>1. [values EXCEPT !.tenant = table[id].tenant, !.deleted = FALSE] \in Row
    BY DEF Row
  <1> QED
    BY <1>1 DEF Update, TableOK

LEMMA SoftDeleteType ==
    ASSUME TableOK, NEW id \in RowIds, table[id] \in Row, SoftDelete(id)
    PROVE  TableOK'
  <1>1. [table[id] EXCEPT !.deleted = TRUE] \in Row
    BY DEF Row
  <1>2. table' = [table EXCEPT ![id] = [table[id] EXCEPT !.deleted = TRUE]]
    BY DEF SoftDelete
  <1> QED
    BY <1>1, <1>2 DEF TableOK

LEMMA HandleCreateInv ==
    ASSUME PanelInv, NEW q \in Slots, HandleCreate(q)
    PROVE  PanelInv'
  <1> DEFINE r == request[q]
             id == Head(r.ids)
  <1>1. r.pc = "handle" /\ UNCHANGED <<access, started, log, admitted, named, lost>>
    BY DEF HandleCreate, At
  <1>2. id \in RowIds /\ r.tenant \in Tenants
    BY <1>1, Ids, HasOK DEF PanelInv
  <1>3. PICK values \in Row : Create(r.tenant, id, values)
    BY DEF HandleCreate
  <1>4. TableOK'
    BY <1>2, <1>3, CreateType DEF PanelInv, TypeOK
  <1>5. Written(q, id, r.tenant)
    BY DEF HandleCreate
  <1> QED
    BY <1>1, <1>2, <1>4, <1>5, WrittenInv

LEMMA HandleUpdateInv ==
    ASSUME PanelInv, NEW q \in Slots, HandleUpdate(q)
    PROVE  PanelInv'
  <1> DEFINE r == request[q]
             id == Head(r.ids)
  <1>1. r.pc = "handle" /\ UNCHANGED <<access, started, log, admitted, named, lost>>
    BY DEF HandleUpdate, At
  <1>2. id \in RowIds /\ r.tenant \in Tenants
    BY <1>1, Ids, HasOK DEF PanelInv
  <1>3. CASE Found(r.tenant, id)
    <2>1. table[id] \in Row /\ table[id].tenant = r.tenant
      BY <1>2, <1>3, FoundRow DEF PanelInv, TypeOK
    <2>2. PICK values \in Row : Update(id, values)
      BY <1>3 DEF HandleUpdate
    <2>3. TableOK'
      BY <1>2, <2>1, <2>2, UpdateType DEF PanelInv, TypeOK
    <2>4. Written(q, id, table[id].tenant)
      BY <1>3 DEF HandleUpdate
    <2> QED
      BY <1>1, <1>2, <2>1, <2>3, <2>4, WrittenInv
  <1>4. CASE ~Found(r.tenant, id)
    <2>1. Set(q, [r EXCEPT !.pc = "respond"]) /\ UNCHANGED <<table, changes>>
      BY <1>4 DEF HandleUpdate
    <2> QED
      BY <1>1, <2>1, RespondInv
  <1> QED
    BY <1>3, <1>4

\* The loop of a bulk delete skips a row that is gone.
LEMMA SkipInv ==
    ASSUME PanelInv, NEW q \in Slots, request[q].pc = "handle", Len(request[q].ids) > 1,
           Set(q, [request[q] EXCEPT !.ids = Tail(@)]),
           UNCHANGED <<table, access, started, log, changes, admitted, named, lost>>
    PROVE  PanelInv'
  <1> DEFINE r == request[q]
             n == [r EXCEPT !.ids = Tail(@)]
  <1>1. r \in Live /\ RequestOK(r, admitted, named, changes)
    BY HasOK
  <1>2. Tail(r.ids) \in Seq(RowIds) /\ Len(Tail(r.ids)) \in 1..2
    BY Ids DEF PanelInv
  <1>3. /\ n.pc = "handle" /\ n.nr = r.nr /\ n.actor = r.actor /\ n.tenant = r.tenant
        /\ n.via = r.via /\ n.action = r.action /\ n.buffer = r.buffer
        /\ n.judged = r.judged /\ n.ids = Tail(r.ids)
    BY <1>1 DEF Live
  <1>4. n \in Live
    BY <1>1, <1>2 DEF Live
  <1>5. Set(q, n)
    OBVIOUS
  <1> HIDE DEF n
  <1>6. RequestOK(n, admitted', named', changes')
    BY <1>1, <1>3 DEF RequestOK
  <1>7. Keeps(q, n)
    BY <1>3 DEF Keeps, Pending
  <1>8. /\ started' \in 0..MaxRequests /\ lost' \subseteq 1..MaxRequests
        /\ admitted' \subseteq Users \X Tenants /\ named' \subseteq 1..MaxRequests
    BY DEF PanelInv, TypeOK
  <1> QED
    BY <1>2, <1>3, <1>4, <1>5, <1>6, <1>7, <1>8, QuietStep

LEMMA HandleDeleteInv ==
    ASSUME PanelInv, NEW q \in Slots, HandleDelete(q)
    PROVE  PanelInv'
  <1> DEFINE r == request[q]
             id == Head(r.ids)
  <1>1. r.pc = "handle" /\ UNCHANGED <<access, started, log, admitted, named, lost>>
    BY DEF HandleDelete, At
  <1>2. id \in RowIds /\ r.tenant \in Tenants
    BY <1>1, Ids, HasOK DEF PanelInv
  <1>3. CASE Found(r.tenant, id)
    <2>1. table[id] \in Row /\ table[id].tenant = r.tenant
      BY <1>2, <1>3, FoundRow DEF PanelInv, TypeOK
    <2>2. SoftDelete(id) /\ Written(q, id, table[id].tenant)
      BY <1>3 DEF HandleDelete
    <2>3. TableOK'
      BY <1>2, <2>1, <2>2, SoftDeleteType DEF PanelInv, TypeOK
    <2> QED
      BY <1>1, <1>2, <2>1, <2>2, <2>3, WrittenInv
  <1>4. CASE ~Found(r.tenant, id) /\ Len(r.ids) > 1
    <2>1. Set(q, [r EXCEPT !.ids = Tail(@)]) /\ UNCHANGED <<table, changes>>
      BY <1>4 DEF HandleDelete
    <2> QED
      BY <1>1, <1>4, <2>1, SkipInv
  <1>5. CASE ~Found(r.tenant, id) /\ ~(Len(r.ids) > 1)
    <2>1. Set(q, [r EXCEPT !.pc = "respond"]) /\ UNCHANGED <<table, changes>>
      BY <1>5 DEF HandleDelete
    <2> QED
      BY <1>1, <2>1, RespondInv
  <1> QED
    BY <1>3, <1>4, <1>5

-----------------------------------------------------------------------------
(* The buffer.                                                              *)

LEMMA EmitInv ==
    ASSUME PanelInv, NEW q \in Slots, Emit(q)
    PROVE  PanelInv'
  <1> DEFINE r == request[q]
             e == EntryOf(r, Head(r.ids))
             ids == IF Len(r.ids) > 1 THEN Tail(r.ids) ELSE r.ids
             pc == IF Len(r.ids) > 1 THEN "handle" ELSE "respond"
             n == [r EXCEPT !.buffer = r.buffer \union {e}, !.ids = ids, !.pc = pc]
  <1>1. r.pc = "emit" /\ UNCHANGED <<table, access, started, log, changes, admitted, named, lost>>
    BY DEF Emit, At, history
  <1>2. Set(q, n)
    BY DEF Emit, Buffered
  <1>3. r \in Live /\ RequestOK(r, admitted, named, changes)
    BY <1>1, HasOK
  <1>4. ids \in Seq(RowIds) /\ Len(ids) \in 1..2
    <2>1. r.ids \in Seq(RowIds) /\ Len(r.ids) \in 1..2
      BY <1>1, RecordOK DEF PanelInv, Live
    <2>2. Len(r.ids) > 1 => Tail(r.ids) \in Seq(RowIds) /\ Len(Tail(r.ids)) \in 1..2
      BY <1>1, Ids DEF PanelInv
    <2> QED
      BY <2>1, <2>2, Zenon
  <1>5. e \in Entry /\ e.nr = r.nr
    BY <1>1, Ids, EntryType DEF PanelInv, EntryOf
  <1>6. pc \in {"handle", "respond"}
    OBVIOUS
  <1> HIDE DEF e, ids, pc
  <1>7. /\ n.pc = pc /\ n.nr = r.nr /\ n.actor = r.actor /\ n.tenant = r.tenant /\ n.via = r.via
        /\ n.action = r.action /\ n.buffer = r.buffer \union {e} /\ n.judged = r.judged
        /\ n.ids = ids
    BY <1>3 DEF Live
  <1>8. n \in Live
    BY <1>3, <1>4, <1>5, <1>6 DEF Live
  <1> HIDE DEF n
  <1>9. Keeps(q, n)
    BY <1>5, <1>6, <1>7 DEF Keeps, Pending, e
  <1>10. /\ started' \in 0..MaxRequests /\ lost' \subseteq 1..MaxRequests
         /\ admitted' \subseteq Users \X Tenants /\ named' \subseteq 1..MaxRequests
    BY <1>1 DEF PanelInv, TypeOK
  <1>11. Witnessed(e, changes)
    BY <1>1, <1>3 DEF RequestOK, e
  <1>12. r.via = "panel"
    BY <1>1, <1>3 DEF RequestOK
  <1>13. RequestOK(n, admitted', named', changes')
    BY <1>1, <1>3, <1>6, <1>7, <1>11, <1>12 DEF RequestOK
  <1> QED
    BY <1>1, <1>2, <1>4, <1>7, <1>8, <1>9, <1>10, <1>13, QuietStep

\* A step that empties slot q.
LEMMA EndInv ==
    ASSUME PanelInv, NEW q \in Slots, Set(q, Idle),
           UNCHANGED <<table, access, started, changes, admitted, named>>,
           log \subseteq log', log' \subseteq Entry,
           lost \subseteq lost', lost' \subseteq 1..MaxRequests,
           \A e \in log' \ log : Witnessed(e, changes'),
           Keeps(q, Idle)
    PROVE  PanelInv'
  <1>1. Idle.pc = "idle"
    BY DEF Idle
  <1>2. Grows
    BY DEF Grows
  <1>3. /\ started' \in 0..MaxRequests /\ changes' \subseteq Change
        /\ admitted' \subseteq Users \X Tenants /\ named' \subseteq 1..MaxRequests
    BY DEF PanelInv, TypeOK
  <1>4. TableOK'
    BY DEF PanelInv, TypeOK, TableOK
  <1>5. Around
    BY <1>3, <1>4 DEF Around
  <1>6. \A c \in changes' \ changes : Entitled(c)' /\ (c.via = "panel" => Accounted(c)')
    OBVIOUS
  <1> QED
    BY <1>1, <1>2, <1>5, <1>6, StepKeepsInv

LEMMA FlushInv ==
    ASSUME PanelInv, NEW q \in Slots, Flush(q)
    PROVE  PanelInv'
  <1> DEFINE r == request[q]
  <1>1. /\ r.pc = "respond" /\ Set(q, Idle) /\ log' = log \union r.buffer
        /\ UNCHANGED <<table, access, started, changes, admitted, named, lost>>
    BY DEF Flush, At, history
  <1>2. r \in Live /\ RequestOK(r, admitted, named, changes)
    BY <1>1, HasOK
  <1>3. log' \subseteq Entry /\ lost' \subseteq 1..MaxRequests
    BY <1>1, <1>2 DEF Live, PanelInv, TypeOK
  <1>4. \A e \in log' \ log : Witnessed(e, changes')
    BY <1>1, <1>2 DEF RequestOK
  <1>5. Keeps(q, Idle)
    BY <1>1 DEF Keeps, Pending
  <1> QED
    BY <1>1, <1>3, <1>4, <1>5, EndInv

LEMMA LoseInv ==
    ASSUME PanelInv, NEW q \in Slots, Lose(q)
    PROVE  PanelInv'
  <1> DEFINE r == request[q]
  <1>1. /\ r # Idle /\ Set(q, Idle) /\ lost' = lost \union {r.nr}
        /\ UNCHANGED <<table, access, started, log, changes, admitted, named>>
    BY DEF Lose
  <1>2. r \in Live
    BY <1>1 DEF PanelInv, TypeOK
  <1>3. log' \subseteq Entry /\ lost' \subseteq 1..MaxRequests
    BY <1>1, <1>2 DEF Live, PanelInv, TypeOK
  <1>4. Keeps(q, Idle)
    BY <1>1 DEF Keeps, Pending
  <1> QED
    BY <1>1, <1>3, <1>4, EndInv

LEMMA StutterInv == ASSUME PanelInv, UNCHANGED vars PROVE PanelInv'
  <1>1. UNCHANGED <<table, members, cookie, moves, request, started, log, changes, admitted, named, lost>>
    BY DEF vars, access, history
  <1> QED
    BY <1>1 DEF PanelInv, TypeOK, TableOK, At, CookieInv, RequestInv, ChangesEntitled, Entitled, LetIn,
                LogInv, AccountInv, Accounted

LEMMA NextKeepsInv == ASSUME PanelInv, Next PROVE PanelInv'
  <1>1. ASSUME NEW q \in Slots,
               \/ CheckMembership(q) \/ Authorize(q)
               \/ HandleCreate(q) \/ HandleUpdate(q) \/ HandleDelete(q) \/ HandleThrows(q)
               \/ Emit(q) \/ Flush(q) \/ Lose(q)
        PROVE  PanelInv'
    BY <1>1, CheckMembershipInv, AuthorizeInv, HandleCreateInv, HandleUpdateInv,
       HandleDeleteInv, HandleThrowsInv, EmitInv, FlushInv, LoseInv
  <1> QED
    BY <1>1, MembershipMovesInv, SelectTenantInv, StartInv DEF Next

\* Every reachable state satisfies the inductive invariant.
THEOREM PanelInvariant == Spec => []PanelInv
  <1>1. Init => PanelInv
    BY InitKeepsInv
  <1>2. PanelInv /\ [Next]_vars => PanelInv'
    BY NextKeepsInv, StutterInv
  <1> QED
    BY <1>1, <1>2, PTL DEF Spec

\* The variables keep their types.
THEOREM PanelTypeCorrect == Spec => []TypeOK
  <1>1. PanelInv => TypeOK
    BY DEF PanelInv
  <1> QED
    BY <1>1, PanelInvariant, PTL

\* Every write hit a row of the tenant its request was resolved to, by an actor
\* that was let into the tenant, or an admin whose request named it under the
\* panel's session, and whom the rules let at the row.
THEOREM ChangesAlwaysEntitled == Spec => []ChangesEntitled
  <1>1. PanelInv => ChangesEntitled
    BY DEF PanelInv
  <1> QED
    BY <1>1, PanelInvariant, PTL

\* The audit log holds an entry of every write of the panel whose request was
\* answered, unless the append failed, and no entry without its write.
THEOREM AuditAlwaysExact == Spec => []AuditExact
  <1>1. ASSUME PanelInv PROVE AuditExact
    <2>1. \A e \in log : \E c \in changes : c.entry = e /\ c.rowTenant = e.tenant
      BY <1>1 DEF PanelInv, LogInv, Witnessed
    <2>2. ASSUME NEW c \in changes, c.via = "panel"
          PROVE  c.entry \in log \/ c.entry.nr \in lost \/ InFlight(c.entry.nr)
      <3>1. Accounted(c)
        BY <1>1, <2>2 DEF PanelInv, AccountInv
      <3> QED
        BY <3>1 DEF Accounted, Pending, InFlight, At
    <2> QED
      BY <2>1, <2>2 DEF AuditExact
  <1> QED
    BY <1>1, PanelInvariant, PTL

-----------------------------------------------------------------------------
(* The schema, as the forms need it.                                        *)

\* What the columns of every table have in common.
ColumnOK(c, k) ==
    /\ k.type \in {"uuid", "text", "timestamptz"}
    /\ k.nullable \in BOOLEAN
    /\ k.default \in {"none", "now", "gen_random_uuid", "user", "draft", "member"}
    /\ k.default = "gen_random_uuid" => k.type = "uuid"
    /\ k.default = "now" => k.type = "timestamptz"
    /\ k.default \in {"user", "draft", "member"} => k.type = "text"
    /\ k.isPrimaryKey <=> c = "id"
    /\ c = "id" => k.default = "gen_random_uuid" /\ ~k.references
    /\ c = "tenantId" => k.type = "uuid"

LEMMA ColumnKinds ==
    /\ ColumnOK("id", Id)
    /\ \A c : c # "id" => ColumnOK(c, Reference(FALSE)) /\ ColumnOK(c, Reference(TRUE))
    /\ \A c : c \notin {"id", "tenantId"} =>
         /\ \A d \in {"none", "user", "draft", "member"} : ColumnOK(c, Text(d))
         /\ ColumnOK(c, Stamp) /\ ColumnOK(c, MaybeStamp) /\ ColumnOK(c, MaybeText)
         /\ ColumnOK(c, Column("timestamptz", FALSE, "none"))
<1>1. ColumnOK("id", Id)
  BY DEF ColumnOK, Id, Column
<1>2. ASSUME NEW c, c # "id" PROVE ColumnOK(c, Reference(FALSE)) /\ ColumnOK(c, Reference(TRUE))
  BY <1>2 DEF ColumnOK, Reference, Column
<1>3. ASSUME NEW c, c \notin {"id", "tenantId"}, NEW d \in {"none", "user", "draft", "member"}
      PROVE  ColumnOK(c, Text(d))
  BY <1>3 DEF ColumnOK, Text, Column
<1>4. ASSUME NEW c, c \notin {"id", "tenantId"} PROVE ColumnOK(c, Stamp)
  BY <1>4 DEF ColumnOK, Stamp, Column
<1>5. ASSUME NEW c, c \notin {"id", "tenantId"}
      PROVE  ColumnOK(c, MaybeStamp) /\ ColumnOK(c, Column("timestamptz", FALSE, "none"))
  BY <1>5 DEF ColumnOK, MaybeStamp, Column
<1>6. ASSUME NEW c, c \notin {"id", "tenantId"} PROVE ColumnOK(c, MaybeText)
  BY <1>6 DEF ColumnOK, MaybeText, Column
<1> QED  BY <1>1, <1>2, <1>3, <1>4, <1>5, <1>6

\* The resources are the five tables with all the calls of a panel.
LEMMA FiveResources ==
    /\ Resources = {"users", "posts", "tenants", "memberships", "invitations"}
    /\ DOMAIN Schema = Resources
<1>1. \A t \in DOMAIN Offers : Crud \subseteq Offers[t] <=>
          t \in {"users", "posts", "tenants", "memberships", "invitations"}
  BY DEF Offers, Crud, ReadOnlyCrud
<1>2. {"users", "posts", "tenants", "memberships", "invitations"} \subseteq DOMAIN Offers
  BY DEF Offers
<1>3. Resources = {"users", "posts", "tenants", "memberships", "invitations"}
  BY <1>1, <1>2 DEF Resources
<1>4. DOMAIN Schema = {"users", "posts", "tenants", "memberships", "invitations"}
  BY DEF Schema
<1> QED  BY <1>3, <1>4

\* Every table has a generated key; no column has the name of a field of the protocol.
LEMMA TableKeys ==
    ASSUME NEW t \in Resources
    PROVE  /\ "id" \in DOMAIN Schema[t]
           /\ "_csrf" \notin DOMAIN Schema[t] /\ "_method" \notin DOMAIN Schema[t]
<1>1. Schema[t] \in {UsersTable, PostsTable, TenantsTable, MembershipsTable, InvitationsTable}
  BY FiveResources DEF Schema
<1> QED  BY <1>1 DEF UsersTable, PostsTable, TenantsTable, MembershipsTable, InvitationsTable

LEMMA TableColumns ==
    ASSUME NEW t \in Resources
    PROVE  \A c \in DOMAIN Schema[t] : ColumnOK(c, Col(t, c))
<1>1. \A c \in DOMAIN UsersTable : ColumnOK(c, UsersTable[c])
  <2>1. DOMAIN UsersTable =
          {"id", "email", "passwordHash", "role", "createdAt", "updatedAt",
           "tenantId", "emailVerifiedAt"}
    BY DEF UsersTable
  <2>2. /\ UsersTable["id"] = Id
        /\ UsersTable["email"] = Text("none")
        /\ UsersTable["passwordHash"] = Text("none")
        /\ UsersTable["role"] = Text("user")
        /\ UsersTable["createdAt"] = Stamp
        /\ UsersTable["updatedAt"] = Stamp
        /\ UsersTable["tenantId"] = Reference(FALSE)
        /\ UsersTable["emailVerifiedAt"] = MaybeStamp
    BY DEF UsersTable
  <2> QED  BY <2>1, <2>2, ColumnKinds
<1>2. \A c \in DOMAIN PostsTable : ColumnOK(c, PostsTable[c])
  <2>1. DOMAIN PostsTable =
          {"id", "title", "content", "status", "authorId", "createdAt",
           "updatedAt", "deletedAt", "tenantId"}
    BY DEF PostsTable
  <2>2. /\ PostsTable["id"] = Id
        /\ PostsTable["title"] = Text("none")
        /\ PostsTable["content"] = Text("none")
        /\ PostsTable["status"] = Text("draft")
        /\ PostsTable["authorId"] = Reference(FALSE)
        /\ PostsTable["createdAt"] = Stamp
        /\ PostsTable["updatedAt"] = Stamp
        /\ PostsTable["deletedAt"] = MaybeStamp
        /\ PostsTable["tenantId"] = Reference(FALSE)
    BY DEF PostsTable
  <2> QED  BY <2>1, <2>2, ColumnKinds
<1>3. \A c \in DOMAIN TenantsTable : ColumnOK(c, TenantsTable[c])
  <2>1. DOMAIN TenantsTable =
          {"id", "slug", "name", "createdAt", "updatedAt", "deletedAt",
           "mailFrom", "mailFromName", "mailFromVerifiedAt"}
    BY DEF TenantsTable
  <2>2. /\ TenantsTable["id"] = Id
        /\ TenantsTable["slug"] = Text("none")
        /\ TenantsTable["name"] = Text("none")
        /\ TenantsTable["createdAt"] = Stamp
        /\ TenantsTable["updatedAt"] = Stamp
        /\ TenantsTable["deletedAt"] = MaybeStamp
        /\ TenantsTable["mailFrom"] = MaybeText
        /\ TenantsTable["mailFromName"] = MaybeText
        /\ TenantsTable["mailFromVerifiedAt"] = MaybeStamp
    BY DEF TenantsTable
  <2> QED  BY <2>1, <2>2, ColumnKinds
<1>4. \A c \in DOMAIN MembershipsTable : ColumnOK(c, MembershipsTable[c])
  <2>1. DOMAIN MembershipsTable =
          {"id", "tenantId", "userId", "role", "invitedBy", "joinedAt",
           "createdAt", "deletedAt"}
    BY DEF MembershipsTable
  <2>2. /\ MembershipsTable["id"] = Id
        /\ MembershipsTable["tenantId"] = Reference(FALSE)
        /\ MembershipsTable["userId"] = Reference(FALSE)
        /\ MembershipsTable["role"] = Text("member")
        /\ MembershipsTable["invitedBy"] = Reference(TRUE)
        /\ MembershipsTable["joinedAt"] = MaybeStamp
        /\ MembershipsTable["createdAt"] = Stamp
        /\ MembershipsTable["deletedAt"] = MaybeStamp
    BY DEF MembershipsTable
  <2> QED  BY <2>1, <2>2, ColumnKinds
<1>5. \A c \in DOMAIN InvitationsTable : ColumnOK(c, InvitationsTable[c])
  <2>1. DOMAIN InvitationsTable =
          {"id", "tenantId", "email", "role", "tokenHash", "invitedBy",
           "expiresAt", "acceptedAt", "createdAt", "deletedAt"}
    BY DEF InvitationsTable
  <2>2. /\ InvitationsTable["id"] = Id
        /\ InvitationsTable["tenantId"] = Reference(FALSE)
        /\ InvitationsTable["email"] = Text("none")
        /\ InvitationsTable["role"] = Text("member")
        /\ InvitationsTable["tokenHash"] = Text("none")
        /\ InvitationsTable["invitedBy"] = Reference(TRUE)
        /\ InvitationsTable["expiresAt"] = Column("timestamptz", FALSE, "none")
        /\ InvitationsTable["acceptedAt"] = MaybeStamp
        /\ InvitationsTable["createdAt"] = Stamp
        /\ InvitationsTable["deletedAt"] = MaybeStamp
    BY DEF InvitationsTable
  <2> QED  BY <2>1, <2>2, ColumnKinds
<1> QED  BY <1>1, <1>2, <1>3, <1>4, <1>5, FiveResources DEF Schema, Col

\* The forms of the posts: the only ones whose submissions are ever accepted.
LEMMA PostsForms ==
    /\ DOMAIN Schema["posts"] = {"id", "title", "content", "status", "authorId", "createdAt",
                                 "updatedAt", "deletedAt", "tenantId"}
    /\ \A mode : Rendered("posts", mode) = {"title", "content", "status", "authorId"}
    /\ \A mode : Rendered("posts", mode) \subseteq Writable("posts", mode)
    /\ Widget("posts", "status") = "radio-group" /\ Widget("posts", "authorId") = "autocomplete"
    /\ Widget("posts", "title") = "text" /\ Widget("posts", "content") = "text"
    /\ ~IsReadOnly("posts", "status")
    /\ Overrides["posts"].options["status"] = {"draft", "published", "archived"}
    /\ Required("posts") \subseteq {"title", "content", "authorId"}
<1>1. Schema["posts"] = PostsTable /\ Overrides["posts"] = PostsOverride
  BY DEF Schema, Overrides
<1>2. DOMAIN PostsTable = {"id", "title", "content", "status", "authorId", "createdAt",
                           "updatedAt", "deletedAt", "tenantId"}
  BY DEF PostsTable
<1>3. /\ PostsOverride.hidden = {"deletedAt"} /\ PostsOverride.fieldsets = PostsFieldset
      /\ PostsOverride.readOnly = {"id", "createdAt", "updatedAt"}
      /\ DOMAIN PostsOverride.options = {"status"}
      /\ PostsOverride.options["status"] = {"draft", "published", "archived"}
  BY DEF PostsOverride, Override
<1>4. \A c \in DOMAIN Schema["posts"] : ColumnOK(c, Col("posts", c))
  BY TableColumns, FiveResources
<1>5. Col("posts", "authorId").references /\ Col("posts", "authorId").type = "uuid"
  BY <1>1 DEF Col, PostsTable, Reference, Column
<1>6. /\ Col("posts", "title").type = "text" /\ ~Col("posts", "title").references
      /\ Col("posts", "content").type = "text" /\ ~Col("posts", "content").references
      /\ Col("posts", "status").type = "text" /\ ~Col("posts", "status").references
  BY <1>1 DEF Col, PostsTable, Text, Column
<1>7. \A c \in DOMAIN PostsTable : ~IsGenerated("posts", c) <=> c # "id"
  BY <1>1, <1>4 DEF IsGenerated, ColumnOK
<1>8. \A c \in DOMAIN PostsTable : ~Col("posts", c).isPrimaryKey <=> c # "id"
  BY <1>1, <1>4 DEF ColumnOK
<1>9. /\ Widget("posts", "status") = "radio-group" /\ Widget("posts", "authorId") = "autocomplete"
      /\ Widget("posts", "title") = "text" /\ Widget("posts", "content") = "text"
  <2>1. \A c \in DOMAIN PostsTable \ {"id"} :
          /\ c \in DOMAIN Overrides["posts"].options <=> c = "status"
          /\ ~Col("posts", c).isPrimaryKey /\ ~IsGenerated("posts", c)
    BY <1>1, <1>2, <1>3, <1>7, <1>8
  <2>2. Widget("posts", "status") = "radio-group"
    <3>1. "status" \in DOMAIN Overrides["posts"].options /\ ~IsGenerated("posts", "status")
      BY <2>1, <1>2
    <3>2. ~Col("posts", "status").references /\ Col("posts", "status").type # "timestamptz"
      BY <1>6
    <3> QED  BY <3>1, <3>2, Zenon DEF Widget
  <2>3. Widget("posts", "authorId") = "autocomplete"
    <3>1. "authorId" \notin DOMAIN Overrides["posts"].options /\ ~IsGenerated("posts", "authorId")
      BY <2>1, <1>2
    <3>2. Col("posts", "authorId").references /\ Col("posts", "authorId").type # "timestamptz"
      BY <1>5
    <3> QED  BY <3>1, <3>2, Zenon DEF Widget
  <2>4. Widget("posts", "title") = "text"
    <3>1. "title" \notin DOMAIN Overrides["posts"].options /\ ~IsGenerated("posts", "title")
      BY <2>1, <1>2
    <3>2. ~Col("posts", "title").references /\ Col("posts", "title").type # "timestamptz"
      BY <1>6
    <3> QED  BY <3>1, <3>2, Zenon DEF Widget
  <2>5. Widget("posts", "content") = "text"
    <3>1. "content" \notin DOMAIN Overrides["posts"].options /\ ~IsGenerated("posts", "content")
      BY <2>1, <1>2
    <3>2. ~Col("posts", "content").references /\ Col("posts", "content").type # "timestamptz"
      BY <1>6
    <3> QED  BY <3>1, <3>2, Zenon DEF Widget
  <2> QED  BY <2>2, <2>3, <2>4, <2>5
<1>10. \A mode : Rendered("posts", mode) = {"title", "content", "status", "authorId"}
  BY <1>1, <1>2, <1>3, <1>9 DEF Rendered, Fields, PostsFieldset
<1>11. \A mode : Rendered("posts", mode) \subseteq Writable("posts", mode)
  BY <1>1, <1>2, <1>7, <1>8, <1>10 DEF Writable
<1>12. ~IsReadOnly("posts", "status")
  BY <1>1, <1>2, <1>3, <1>7, <1>8 DEF IsReadOnly
<1>13. Required("posts") \subseteq {"title", "content", "authorId"}
  <2>1. /\ Col("posts", "status").default # "none" /\ Col("posts", "createdAt").default # "none"
        /\ Col("posts", "updatedAt").default # "none" /\ Col("posts", "deletedAt").nullable
    BY <1>1 DEF Col, PostsTable, Text, Stamp, MaybeStamp, Column
  <2> QED  BY <1>1, <1>2, <1>7, <2>1 DEF Required, Writable
<1> QED  BY <1>1, <1>2, <1>3, <1>9, <1>10, <1>11, <1>12, <1>13

\* What other forms show: the key in an update, and a read-only moment in a create.
LEMMA OtherForms ==
    ASSUME NEW t \in Resources \ {"posts"}
    PROVE  /\ "id" \in Rendered(t, "update") /\ "createdAt" \in Rendered(t, "create")
           /\ Widget(t, "id") # "radio-group" /\ Widget(t, "createdAt") # "radio-group"
           /\ IsReadOnly(t, "createdAt") /\ ~Col(t, "createdAt").nullable
           /\ "id" \notin Writable(t, "update") /\ "createdAt" \in Writable(t, "create")
<1>1. ASSUME NEW o, o = Overrides[t]
      PROVE  /\ {"id", "createdAt"} \subseteq DOMAIN Schema[t]
             /\ {"id", "createdAt"} \subseteq o.fieldsets \ o.hidden
             /\ {"id", "createdAt"} \intersect DOMAIN o.options = {}
             /\ "createdAt" \in o.readOnly
             /\ Col(t, "createdAt") = Stamp
  <2>1. CASE t = "users"
    BY <1>1, <2>1
    DEF Overrides, UsersOverride, Override, Schema, Col, UsersTable
  <2>2. CASE t = "tenants"
    BY <1>1, <2>2
    DEF Overrides, TenantsOverride, Override, Schema, Col, TenantsTable
  <2>3. CASE t = "memberships"
    BY <1>1, <2>3
    DEF Overrides, MembershipsOverride, Override, Schema, Col, MembershipsTable
  <2>4. CASE t = "invitations"
    BY <1>1, <2>4
    DEF Overrides, InvitationsOverride, Override, Schema, Col, InvitationsTable
  <2> QED  BY <2>1, <2>2, <2>3, <2>4, FiveResources
<1>2. /\ Stamp.type = "timestamptz" /\ ~Stamp.nullable /\ ~Stamp.references
      /\ ~Stamp.isPrimaryKey
  BY DEF Stamp, Column
<1>3. ColumnOK("id", Col(t, "id"))
  BY <1>1, TableColumns
<1>4. IsGenerated(t, "id") /\ ~IsGenerated(t, "createdAt") /\ ~Col(t, "id").references
      /\ Col(t, "id").type = "uuid"
  BY <1>1, <1>2, <1>3 DEF IsGenerated, ColumnOK
<1>5. Widget(t, "id") = "readonly"
  <2>1. "id" \notin DOMAIN Overrides[t].options
    BY <1>1
  <2>2. Col(t, "id").isPrimaryKey
    BY <1>3 DEF ColumnOK
  <2>3. Col(t, "id").type # "timestamptz"
    BY <1>4
  <2> QED  BY <2>1, <2>2, <2>3, <1>4, Zenon DEF Widget
<1>6. Widget(t, "createdAt") = "datetime"
  <2>1. "createdAt" \notin DOMAIN Overrides[t].options
    BY <1>1
  <2>2. ~Col(t, "createdAt").references /\ Col(t, "createdAt").type = "timestamptz"
    BY <1>1, <1>2
  <2> QED  BY <2>1, <2>2, <1>4, Zenon DEF Widget
<1>7. "id" \in Rendered(t, "update") /\ "createdAt" \in Rendered(t, "create")
  BY <1>1, <1>6 DEF Rendered, Fields
<1>8. "id" \notin Writable(t, "update") /\ "createdAt" \in Writable(t, "create")
  BY <1>1, <1>4 DEF Writable
<1>9. IsReadOnly(t, "createdAt")
  BY <1>1 DEF IsReadOnly
<1> QED  BY <1>1, <1>2, <1>5, <1>6, <1>7, <1>8, <1>9

\* What a form posts, as it reaches the validator.
IsPosted(t, mode, shown, data) ==
    /\ data = [c \in DOMAIN data |-> data[c]]
    /\ \A c : c \in DOMAIN data <=>
         /\ c \in Rendered(t, mode)
         /\ Widget(t, c) = "radio-group" =>
              shown[c] \in Overrides[t].options[c] /\ ~IsReadOnly(t, c)
    /\ \A c \in DOMAIN data : data[c] = Typed(shown[c])

LEMMA Posted ==
    ASSUME NEW t \in Resources, NEW mode, NEW shown
    PROVE  IsPosted(t, mode, shown, StripMeta(t, Payload(t, mode, shown)))
<1> SUFFICES ASSUME NEW data, data = StripMeta(t, Payload(t, mode, shown))
             PROVE  IsPosted(t, mode, shown, data)
  OBVIOUS
<1> DEFINE body == Payload(t, mode, shown)
           radios == {c \in Rendered(t, mode) : Widget(t, c) = "radio-group"}
           checked == {c \in radios : shown[c] \in Overrides[t].options[c] /\ ~IsReadOnly(t, c)}
           lookups == {c \in Rendered(t, mode) : Widget(t, c) = "autocomplete"}
           inputs == (Rendered(t, mode) \ radios) \union checked
<1>1. Rendered(t, mode) \subseteq DOMAIN Schema[t]
  BY DEF Rendered, Fields
<1>2. MetaNames(t) \intersect DOMAIN Schema[t] = {}
  BY TableKeys, DisplayNames, FiveResources DEF MetaNames
<1>3. {Display(c) : c \in lookups} \subseteq MetaNames(t)
  BY <1>1 DEF MetaNames
<1>4. body = [n \in inputs \union {Display(c) : c \in lookups} \union {"_csrf", "_method"} |->
                 IF n \in inputs THEN shown[n] ELSE "meta"]
  BY DEF Payload
<1>5. DOMAIN data = DOMAIN body \ MetaNames(t)
  BY DEF StripMeta
<1>6. "_csrf" \in MetaNames(t) /\ "_method" \in MetaNames(t)
  BY DEF MetaNames
<1>7. inputs \subseteq Rendered(t, mode)
  OBVIOUS
<1>8. DOMAIN data = inputs
  <2> HIDE DEF inputs, lookups, body
  <2> QED  BY <1>1, <1>2, <1>3, <1>4, <1>5, <1>6, <1>7
<1>9. ASSUME NEW c \in DOMAIN data PROVE data[c] = Typed(shown[c])
  <2>1. data[c] = IF body[c] = "" THEN Null ELSE body[c]
    BY <1>9, <1>5 DEF StripMeta
  <2>2. body[c] = shown[c]
    <3> HIDE DEF inputs, lookups, body
    <3> QED  BY <1>9, <1>8, <1>4
  <2> HIDE DEF body
  <2> QED  BY <2>1, <2>2 DEF Typed
<1>10. data = [c \in DOMAIN data |-> data[c]]
  BY DEF StripMeta
<1> HIDE DEF body
<1> QED  BY <1>8, <1>9, <1>10 DEF IsPosted
-----------------------------------------------------------------------------
(* What validators and database make of data.                               *)

\* A row the database takes, whatever its references are.
Fits(t, r) == \A c \in DOMAIN r : Accepts(t, c, r[c])

LEMMA Judged ==
    ASSUME NEW t, NEW mode, NEW data, ValidationErrors(t, mode, data) = {}
    PROVE  /\ DOMAIN data \subseteq Writable(t, mode)
           /\ DOMAIN data \subseteq DOMAIN Schema[t] \ {"tenantId"}
           /\ \A c \in DOMAIN data : Accepts(t, c, data[c])
           /\ mode = "create" => Required(t) \subseteq DOMAIN data
<1>1. DOMAIN data \subseteq Writable(t, mode)
  BY DEF ValidationErrors
<1>2. \A c \in DOMAIN data \intersect Writable(t, mode) : Accepts(t, c, data[c])
  BY DEF ValidationErrors
<1>3. mode = "create" => Required(t) \subseteq DOMAIN data
  BY DEF ValidationErrors
<1>4. Writable(t, mode) \subseteq DOMAIN Schema[t] \ {"tenantId"}
  BY DEF Writable
<1> QED  BY <1>1, <1>2, <1>3, <1>4

\* A row that fits is refused for a dangling reference only.
LEMMA FitsErrors ==
    ASSUME NEW t, NEW r, Fits(t, r)
    PROVE  RepoErrors(t, r) \subseteq {"foreign key"}
<1>1. {d \in DOMAIN r : r[d] = Null /\ ~Col(t, d).nullable} = {}
  BY DEF Fits, Accepts
<1> QED  BY <1>1 DEF RepoErrors

\* Of valid data Postgres cannot read a date, a text or an update of nothing: the
\* validator of a uuid is the stricter of the two.
LEMMA StatementForeseen ==
    ASSUME NEW t \in Resources, NEW mode, NEW data, ValidationErrors(t, mode, data) = {}
    PROVE  StatementErrors(t, mode, data) \subseteq Foreseen
<1> DEFINE odd == {d \in DOMAIN data : data[d] # Null /\ ~Readable(t, d, data[d])}
<1>1. ASSUME NEW c \in odd PROVE Col(t, c).type \in {"timestamptz", "text"}
  <2>1. c \in DOMAIN Schema[t] /\ Accepts(t, c, data[c]) /\ data[c] # Null
    BY <1>1, Judged
  <2>2. Col(t, c).type \in {"uuid", "text", "timestamptz"}
    BY <2>1, TableColumns DEF ColumnOK
  <2>3. SUFFICES ASSUME Col(t, c).type = "uuid" PROVE FALSE
    BY <2>2
  <2>4. OfType(t, c, data[c])
    BY <2>1 DEF Accepts
  <2>5. Col(t, c).type # "timestamptz"
    BY <2>3
  <2>6. data[c] \in Uuids
    BY <2>3, <2>4, <2>5, Zenon DEF OfType
  <2>7. data[c] \in Uuids \union {"uuid7"}
    BY <2>6
  <2>8. Readable(t, c, data[c])
    BY <2>3, <2>5, <2>7, Zenon DEF Readable
  <2> QED  BY <1>1, <2>8
<1>2. StatementErrors(t, mode, data) \subseteq {Col(t, c).type : c \in odd} \union {"no columns"}
  BY DEF StatementErrors
<1> HIDE DEF odd
<1> QED  BY <1>1, <1>2 DEF Foreseen

LEMMA OfTypeIs ==
    ASSUME NEW t, NEW c, NEW v
    PROVE  /\ Col(t, c).type = "uuid" /\ v \in Uuids => OfType(t, c, v)
           /\ Col(t, c).type = "timestamptz" /\ v \in Moments => OfType(t, c, v)
           /\ Col(t, c).type = "text" => OfType(t, c, v)
<1>1. ASSUME Col(t, c).type = "uuid", v \in Uuids PROVE OfType(t, c, v)
  <2>1. Col(t, c).type # "timestamptz"
    BY <1>1
  <2> QED  BY <1>1, <2>1, Zenon DEF OfType
<1>2. ASSUME Col(t, c).type = "timestamptz", v \in Moments PROVE OfType(t, c, v)
  <2>1. Col(t, c).type # "uuid"
    BY <1>2
  <2> QED  BY <1>2, <2>1, Zenon DEF OfType
<1>3. ASSUME Col(t, c).type = "text" PROVE OfType(t, c, v)
  <2>1. Col(t, c).type # "uuid" /\ Col(t, c).type # "timestamptz"
    BY <1>3
  <2> QED  BY <2>1, Zenon DEF OfType
<1> QED  BY <1>1, <1>2, <1>3

\* A default fits its column, unless there is none and NULL is not allowed.
LEMMA Defaults ==
    ASSUME NEW t \in Resources, NEW c \in DOMAIN Schema[t]
    PROVE  /\ DefaultValue(t, c) # ""
           /\ \/ Accepts(t, c, DefaultValue(t, c))
              \/ Col(t, c).default = "none" /\ ~Col(t, c).nullable
<1> DEFINE d == Col(t, c).default
<1>1. ColumnOK(c, Col(t, c))
  BY TableColumns
<1>2. CASE d = "gen_random_uuid"
  <2>1. d # "now" /\ d # "none"
    BY <1>2
  <2>2. DefaultValue(t, c) = "fresh"
    BY <1>2, <2>1, Zenon DEF DefaultValue
  <2>3. OfType(t, c, "fresh")
    BY <1>1, <1>2, OfTypeIs DEF ColumnOK, Uuids
  <2> QED  BY <2>2, <2>3 DEF Accepts, Null
<1>3. CASE d = "now"
  <2>1. d # "gen_random_uuid" /\ d # "none"
    BY <1>3
  <2>2. DefaultValue(t, c) = "later30"
    BY <1>3, <2>1, Zenon DEF DefaultValue
  <2>3. OfType(t, c, "later30")
    BY <1>1, <1>3, OfTypeIs DEF ColumnOK, Moments
  <2> QED  BY <2>2, <2>3 DEF Accepts, Null
<1>4. CASE d = "none"
  <2>1. d # "gen_random_uuid" /\ d # "now"
    BY <1>4
  <2>2. DefaultValue(t, c) = Null
    BY <1>4, <2>1, Zenon DEF DefaultValue
  <2> QED  BY <1>4, <2>2 DEF Accepts, Null
<1>5. CASE d \notin {"gen_random_uuid", "now", "none"}
  <2>1. d # "gen_random_uuid" /\ d # "now" /\ d # "none"
    BY <1>5
  <2>2. DefaultValue(t, c) = d
    BY <2>1, Zenon DEF DefaultValue
  <2>3. OfType(t, c, d) /\ d # "null" /\ d # ""
    BY <1>1, <1>5, OfTypeIs DEF ColumnOK
  <2> QED  BY <2>2, <2>3 DEF Accepts, Null
<1> QED  BY <1>2, <1>3, <1>4, <1>5

\* What the validator accepts for a create makes a row that fits.
Filled(t, data, r) ==
    /\ r = [c \in DOMAIN Schema[t] |-> r[c]]
    /\ \A c \in DOMAIN data : c \in DOMAIN Schema[t] /\ r[c] = data[c]
    /\ \A c \in DOMAIN Schema[t] : r[c] # ""
    /\ Fits(t, r)

LEMMA InsertedFits ==
    ASSUME NEW t \in Resources, NEW data, ValidationErrors(t, "create", data) = {},
           \A c \in DOMAIN data : data[c] # ""
    PROVE  Filled(t, data, Inserted(t, data))
<1> SUFFICES ASSUME NEW r, r = Inserted(t, data) PROVE Filled(t, data, r)
  OBVIOUS
<1>1. DOMAIN data \subseteq DOMAIN Schema[t] \ {"tenantId"}
  BY Judged
<1>2. r = [c \in DOMAIN Schema[t] |-> r[c]]
  BY DEF Inserted
<1>3. \A c \in DOMAIN data : r[c] = data[c]
  BY <1>1 DEF Inserted
<1>4. ASSUME NEW c \in DOMAIN Schema[t] PROVE r[c] # "" /\ Accepts(t, c, r[c])
  <2>1. CASE c = "tenantId"
    <3>1. r[c] = "home"
      BY <1>4, <2>1 DEF Inserted
    <3>2. Col(t, c).type = "uuid"
      BY <1>4, <2>1, TableColumns DEF ColumnOK
    <3> QED  BY <3>1, <3>2, OfTypeIs DEF Accepts, Null, Uuids
  <2>2. CASE c \in DOMAIN data
    BY <2>2, <1>3, Judged
  <2>3. CASE c # "tenantId" /\ c \notin DOMAIN data
    <3>1. r[c] = DefaultValue(t, c)
      BY <1>4, <2>3 DEF Inserted
    <3>2. ~(Col(t, c).default = "none" /\ ~Col(t, c).nullable)
      <4>1. SUFFICES ASSUME Col(t, c).default = "none", ~Col(t, c).nullable PROVE FALSE
        OBVIOUS
      <4>2. ~IsGenerated(t, c)
        BY <4>1 DEF IsGenerated
      <4>3. c \in Required(t)
        BY <1>4, <2>3, <4>1, <4>2 DEF Required, Writable
      <4> QED  BY <4>3, <2>3, Judged
    <3> QED  BY <3>1, <3>2, <1>4, Defaults
  <2> QED  BY <2>1, <2>2, <2>3
<1> QED  BY <1>1, <1>2, <1>3, <1>4 DEF Filled, Fits

\* The values a client starts from are valid.
LEMMA SamplesValid ==
    ASSUME NEW t \in Resources
    PROVE  /\ ValidationErrors(t, "create", Samples(t)) = {}
           /\ \A c \in DOMAIN Samples(t) : Samples(t)[c] # ""
<1> DEFINE names == {d \in DOMAIN Schema[t] \ {"tenantId"} :
                        ~Col(t, d).nullable /\ Col(t, d).default = "none"}
<1>1. Samples(t) = [c \in names |-> Sample(t, c)]
  BY DEF Samples
<1>2. ASSUME NEW c \in names PROVE Sample(t, c) # "" /\ Accepts(t, c, Sample(t, c))
  <2>1. Col(t, c).type \in {"uuid", "timestamptz", "text"}
    BY <1>2, TableColumns DEF ColumnOK
  <2>2. CASE Col(t, c).type = "uuid"
    <3>1. Col(t, c).type # "timestamptz"
      BY <2>2
    <3>2. Sample(t, c) = "u1"
      BY <2>2, <3>1, Zenon DEF Sample
    <3> QED  BY <2>2, <3>2, OfTypeIs DEF Accepts, Null, Uuids, Accounts
  <2>3. CASE Col(t, c).type = "timestamptz"
    <3>1. Col(t, c).type # "uuid"
      BY <2>3
    <3>2. Sample(t, c) = "noon30"
      BY <2>3, <3>1, Zenon DEF Sample
    <3> QED  BY <2>3, <3>2, OfTypeIs DEF Accepts, Null, Moments
  <2>4. CASE Col(t, c).type = "text"
    <3>1. Col(t, c).type # "uuid" /\ Col(t, c).type # "timestamptz"
      BY <2>4
    <3>2. Sample(t, c) = "a"
      BY <3>1, Zenon DEF Sample
    <3> QED  BY <2>4, <3>2, OfTypeIs DEF Accepts, Null
  <2> QED  BY <2>1, <2>2, <2>3, <2>4
<1>3. \A c \in names : ~IsGenerated(t, c)
  BY DEF IsGenerated
<1>4. Required(t) \subseteq names /\ names \subseteq Writable(t, "create")
  BY <1>3 DEF Required, Writable
<1> HIDE DEF names
<1>5. DOMAIN Samples(t) = names /\ \A c \in names : Samples(t)[c] = Sample(t, c)
  BY <1>1
<1> QED  BY <1>2, <1>4, <1>5 DEF ValidationErrors

\* What a client posts: valid, and no value is an empty string.
LEMMA ClientData ==
    ASSUME NEW t \in Resources, NEW mode \in {"create", "update"},
           NEW data \in ClientBodies[t][mode]
    PROVE  /\ ValidationErrors(t, mode, data) = {}
           /\ data = [c \in DOMAIN data |-> data[c]]
           /\ \A c \in DOMAIN data : data[c] # ""
<1> DEFINE base == IF mode = "create" THEN Samples(t) ELSE Nothing
           without(c) == [n \in DOMAIN base \ {c} |-> base[n]]
           with(c, v) == [n \in DOMAIN base \union {c} |-> IF n = c THEN v ELSE base[n]]
           Body(b) == b = [c \in DOMAIN b |-> b[c]] /\ \A c \in DOMAIN b : b[c] # ""
<1>1. data \in Bodies(t, mode) /\ ValidationErrors(t, mode, data) = {}
  BY DEF ClientBodies
<1>2. \A c \in DOMAIN base : base[c] # ""
  BY SamplesValid DEF Nothing
<1>3. ASSUME NEW c PROVE Body(without(c))
  <2> HIDE DEF base
  <2> QED  BY <1>2
<1>4. ASSUME NEW c, NEW v, v # "" PROVE Body(with(c, v))
  <2> HIDE DEF base
  <2> QED  BY <1>2, <1>4
<1>5. ASSUME NEW c \in DOMAIN Schema[t], NEW v \in Probe(t, c, mode) PROVE v # ""
  <2>1. Col(t, c).type \in {"uuid", "timestamptz", "text"}
    BY <1>5, TableColumns DEF ColumnOK
  <2>2. CASE Col(t, c).type = "uuid"
    <3>1. Col(t, c).type # "timestamptz"
      BY <2>2
    <3>2. Probe(t, c, mode) = {Null} \union ({"ghost", "junk", "uuid7"} \union
                                 (IF mode = "update" THEN {"u2"} ELSE {}))
      BY <2>2, <3>1, Zenon DEF Probe
    <3> QED  BY <1>5, <3>2 DEF Null
  <2>3. CASE Col(t, c).type = "timestamptz"
    <3>1. Col(t, c).type # "uuid"
      BY <2>3
    <3>2. Probe(t, c, mode) = {Null} \union ({"junk", "2026"} \union
                    (IF mode = "update" /\ Col(t, c).nullable THEN {"noon"} ELSE {}))
      BY <2>3, <3>1, Zenon DEF Probe
    <3> QED  BY <1>5, <3>2 DEF Null
  <2>4. CASE Col(t, c).type = "text"
    <3>1. Col(t, c).type # "uuid" /\ Col(t, c).type # "timestamptz"
      BY <2>4
    <3>2. Probe(t, c, mode) = {Null} \union ({"zero byte"} \union
                                 (IF mode = "update" THEN {"b"} ELSE {}))
      BY <3>1, Zenon DEF Probe
    <3> QED  BY <1>5, <3>2 DEF Null
  <2> QED  BY <2>1, <2>2, <2>3, <2>4
<1>6. Bodies(t, mode) = UNION {{without(c)} \union {with(c, v) : v \in Probe(t, c, mode)} :
                                  c \in DOMAIN Schema[t]}
  BY DEF Bodies
<1> HIDE DEF without, with, Body, base
<1>7. PICK c \in DOMAIN Schema[t] :
         data \in {without(c)} \union {with(c, v) : v \in Probe(t, c, mode)}
  BY <1>1, <1>6
<1>8. Body(data)
  BY <1>3, <1>4, <1>5, <1>7
<1> QED  BY <1>1, <1>8 DEF Body

-----------------------------------------------------------------------------
(* The forms.  A submission is accepted from the form of a post only: every *)
(* other form carries a field its validator refuses.  For a post, what is   *)
(* posted without having been typed is followed back to what was last typed.*)

People == Editors \union Clients

\* What a form would post now, as it reaches the validator.
FormData(f) == StripMeta(resource, Payload(resource, f.mode, f.shown))

\* What was typed is posted.
Carries(data, typed) ==
    \A c \in DOMAIN typed : c \in DOMAIN data /\ data[c] = Typed(typed[c])

\* The value v in column c of a form opened at o is what was last typed by anybody, or
\* somebody typed there since, or an older form had already lost it.
Stands(c, v, o) ==
    \/ o < lastTyped[c].nr
    \/ c \in stale
    \/ v = lastTyped[c].value

\* So does everything that is posted without having been typed.
Fresh(data, typed, openedAt) ==
    \A c \in DOMAIN data \ DOMAIN typed :
        c \in PostsFieldset /\ Stands(c, data[c], openedAt)

RowOK ==
    /\ resource \in Resources \union {NoResource}
    /\ writes \in Nat
    /\ row # NoRow => resource # NoResource
    /\ row \notin {NoRow, Gone} =>
        /\ row = [c \in Columns |-> row[c]]
        /\ \A c \in Columns : row[c] # ""
        /\ Visible => Fits(resource, row)
    /\ resource # NoResource =>
        /\ lastTyped = [c \in Columns |-> lastTyped[c]]
        /\ \A c \in Columns : lastTyped[c].nr \in Nat /\ lastTyped[c].nr <= writes

\* An open form.
FormOK(f) ==
    /\ f = [mode |-> f.mode, shown |-> f.shown, typed |-> f.typed, openedAt |-> f.openedAt,
            notice |-> f.notice]
    /\ f.mode \in {"create", "update"} /\ f.notice \in {"none", "seen"}
    /\ f.shown = [c \in Rendered(resource, f.mode) |-> f.shown[c]]
    /\ f.openedAt \in Nat /\ f.openedAt <= writes
    /\ f.mode = "update" => row # NoRow
    /\ f.mode = "create" /\ resource # "posts" => f.shown["createdAt"] = ""
    /\ resource = "posts" =>
        /\ Carries(FormData(f), f.typed)
        /\ f.mode = "update" => Fresh(FormData(f), f.typed, f.openedAt)

ModeOf(p) == IF p.pc = "insert" THEN "create" ELSE "update"

\* A submission on its way.
PostOK(p) ==
    /\ p = [pc |-> p.pc, data |-> p.data, typed |-> p.typed, openedAt |-> p.openedAt,
            before |-> p.before, others |-> p.others]
    /\ p.pc \in {"insert", "find", "update"}
    /\ ValidationErrors(resource, ModeOf(p), p.data) = {}
    /\ \A c \in DOMAIN p.data : p.data[c] # ""
    /\ Carries(p.data, p.typed)
    /\ p.openedAt \in Nat /\ p.openedAt <= writes
    /\ p.pc # "insert" => row # NoRow /\ Fresh(p.data, p.typed, p.openedAt)
    /\ p.pc = "update" /\ Visible =>
        \A c \in Columns : p.before[c] # row[c] => c \in p.others

\* A person's submission is that of the open form.
Submitted(f, p) ==
    /\ resource = "posts" /\ f # NoForm
    /\ p.data = FormData(f) /\ p.typed = f.typed /\ p.openedAt = f.openedAt

PersonOK(e, f, p) ==
    /\ resource = NoResource => f = NoForm /\ p = NoPost
    /\ f # NoForm => FormOK(f)
    /\ p # NoPost => PostOK(p)
    /\ e \in Editors /\ p # NoPost => Submitted(f, p)
    /\ e \in Clients => f = NoForm

FormsIn ==
    /\ form = [e \in People |-> form[e]] /\ post = [e \in People |-> post[e]]
    /\ \A e \in People : PersonOK(e, form[e], post[e])

FormInv ==
    /\ RowOK /\ FormsIn /\ EditsAccounted
    /\ ValidatedIsInsertable /\ DiffsExplained

\* A row of a table is neither of the two values that stand for no row.
LEMMA RealRow ==
    ASSUME NEW t \in Resources, NEW r, r = [c \in DOMAIN Schema[t] |-> r[c]]
    PROVE  r # NoRow /\ r # Gone
<1>1. "id" \in DOMAIN r
  BY TableKeys
<1>2. DOMAIN NoRow = {"state"} /\ DOMAIN Gone = {"state"}
  BY DEF NoRow, Gone
<1> QED  BY <1>1, <1>2

\* What a form of a post posts, for the values it shows.
PostsPosted(shown, data) ==
    /\ data = [c \in DOMAIN data |-> data[c]]
    /\ DOMAIN data \subseteq PostsFieldset
    /\ {"title", "content", "authorId"} \subseteq DOMAIN data
    /\ "status" \in DOMAIN data <=> shown["status"] \in {"draft", "published", "archived"}
    /\ \A c \in DOMAIN data : data[c] = Typed(shown[c]) /\ data[c] # ""

LEMMA PostsData ==
    ASSUME NEW mode, NEW shown
    PROVE  PostsPosted(shown, StripMeta("posts", Payload("posts", mode, shown)))
<1> SUFFICES ASSUME NEW data, data = StripMeta("posts", Payload("posts", mode, shown))
             PROVE  PostsPosted(shown, data)
  OBVIOUS
<1>1. "posts" \in Resources
  BY FiveResources
<1>2. Rendered("posts", mode) = PostsFieldset
  BY PostsForms DEF PostsFieldset
<1>3. IsPosted("posts", mode, shown, data)
  BY <1>1, Posted
<1> USE DEF IsPosted
<1>4. \A v : Typed(v) # ""
  BY DEF Typed, Null
<1>5. "status" \in DOMAIN data <=> shown["status"] \in {"draft", "published", "archived"}
  BY <1>2, <1>3, PostsForms DEF PostsFieldset
<1>6. {"title", "content", "authorId"} \subseteq DOMAIN data
  <2>1. ASSUME NEW c \in {"title", "content", "authorId"}
        PROVE  c \in PostsFieldset /\ Widget("posts", c) # "radio-group"
    BY PostsForms DEF PostsFieldset
  <2> QED  BY <1>2, <1>3, <2>1
<1> QED  BY <1>2, <1>3, <1>4, <1>5, <1>6 DEF PostsPosted

LEMMA PostsInputs ==
    ASSUME NEW c \in PostsFieldset, NEW v
    PROVE  InputOf("posts", c, v) = IF v = Null THEN "" ELSE v
<1>1. Widget("posts", c) # "datetime"
  BY PostsForms DEF PostsFieldset
<1> QED  BY <1>1 DEF InputOf

\* A form that is shown again with what it posted posts the same again.
ShownAgain(shown, data) ==
    \A c \in PostsFieldset :
        shown[c] = IF c \in DOMAIN data THEN InputOf("posts", c, data[c]) ELSE ""

LEMMA Rerendered ==
    ASSUME NEW mode, NEW shown, NEW again,
           ShownAgain(again, StripMeta("posts", Payload("posts", mode, shown)))
    PROVE  StripMeta("posts", Payload("posts", mode, again)) =
             StripMeta("posts", Payload("posts", mode, shown))
<1> SUFFICES ASSUME NEW data, data = StripMeta("posts", Payload("posts", mode, shown)),
                    ShownAgain(again, data)
             PROVE  StripMeta("posts", Payload("posts", mode, again)) = data
  OBVIOUS
<1> USE DEF ShownAgain
<1> DEFINE new == StripMeta("posts", Payload("posts", mode, again))
<1>0. new = StripMeta("posts", Payload("posts", mode, again))
  OBVIOUS
<1> HIDE DEF new
<1> SUFFICES new = data
  BY DEF new
<1>1. PostsPosted(shown, data)
  BY PostsData
<1>2. PostsPosted(again, new)
  BY <1>0, PostsData
<1> USE DEF PostsPosted
<1>3. ASSUME NEW c \in DOMAIN data
      PROVE  again[c] = IF data[c] = Null THEN "" ELSE data[c]
  <2>1. c \in PostsFieldset
    BY <1>1, <1>3
  <2>2. InputOf("posts", c, data[c]) = IF data[c] = Null THEN "" ELSE data[c]
    BY <2>1, PostsInputs
  <2> QED  BY <1>3, <2>1, <2>2
<1>4. "status" \in DOMAIN new <=> "status" \in DOMAIN data
  <2>1. CASE "status" \in DOMAIN data
    BY <1>1, <1>2, <1>3, <2>1 DEF Typed, Null
  <2>2. CASE "status" \notin DOMAIN data
    <3>1. again["status"] = ""
      BY <2>2 DEF PostsFieldset
    <3> QED  BY <1>2, <2>2, <3>1
  <2> QED  BY <2>1, <2>2
<1>5. DOMAIN new = DOMAIN data
  <2>1. \A c \in PostsFieldset : c = "status" \/ c \in {"title", "content", "authorId"}
    BY DEF PostsFieldset
  <2>2. \A c \in PostsFieldset : c \in DOMAIN new <=> c \in DOMAIN data
    <3>1. /\ {"title", "content", "authorId"} \subseteq DOMAIN new
          /\ {"title", "content", "authorId"} \subseteq DOMAIN data
      BY <1>1, <1>2
    <3> QED  BY <1>4, <2>1, <3>1
  <2>3. DOMAIN new \subseteq PostsFieldset /\ DOMAIN data \subseteq PostsFieldset
    BY <1>1, <1>2
  <2> QED  BY <2>2, <2>3
<1>6. ASSUME NEW c \in DOMAIN data PROVE new[c] = data[c]
  <2>1. new[c] = Typed(again[c]) /\ data[c] # ""
    BY <1>1, <1>2, <1>5, <1>6
  <2> QED  BY <1>3, <1>6, <2>1 DEF Typed
<1> QED  BY <1>1, <1>2, <1>5, <1>6

\* No other form than that of a post is ever accepted, and its error is at one of its fields:
\* the key in an update, and the read-only moment, which is posted empty, in a create.
LEMMA OthersRefused ==
    ASSUME NEW t \in Resources \ {"posts"}, NEW mode \in {"create", "update"}, NEW shown,
           mode = "create" => shown["createdAt"] = "",
           NEW data, data = StripMeta(t, Payload(t, mode, shown))
    PROVE  ValidationErrors(t, mode, data) \intersect Rendered(t, mode) # {}
<1>0. IsPosted(t, mode, shown, data)
  BY Posted
<1> USE DEF IsPosted
<1>1. CASE mode = "update"
  <2>1. /\ "id" \in Rendered(t, mode) /\ Widget(t, "id") # "radio-group"
        /\ "id" \notin Writable(t, mode)
    BY <1>1, OtherForms
  <2>2. "id" \in DOMAIN data
    BY <1>0, <2>1
  <2>3. "id" \in ValidationErrors(t, mode, data)
    BY <2>1, <2>2 DEF ValidationErrors
  <2> QED  BY <2>1, <2>3
<1>2. CASE mode = "create"
  <2>1. /\ "createdAt" \in Rendered(t, mode) /\ Widget(t, "createdAt") # "radio-group"
        /\ ~Col(t, "createdAt").nullable /\ "createdAt" \in Writable(t, mode)
    BY <1>2, OtherForms
  <2>2. "createdAt" \in DOMAIN data /\ data["createdAt"] = Typed(shown["createdAt"])
    BY <1>0, <2>1
  <2>3. ~Accepts(t, "createdAt", data["createdAt"])
    BY <1>2, <2>1, <2>2 DEF Accepts, Typed
  <2>4. "createdAt" \in ValidationErrors(t, mode, data)
    BY <2>1, <2>2, <2>3 DEF ValidationErrors
  <2> QED  BY <2>1, <2>4
<1> QED  BY <1>1, <1>2

\* The errors of the form of a post are at its fields.
LEMMA PostsErrors ==
    ASSUME NEW mode \in {"create", "update"}, NEW shown, NEW data,
           data = StripMeta("posts", Payload("posts", mode, shown))
    PROVE  ValidationErrors("posts", mode, data) \subseteq Rendered("posts", mode)
<1>1. DOMAIN data \subseteq PostsFieldset /\ {"title", "content", "authorId"} \subseteq DOMAIN data
  BY PostsData DEF PostsPosted
<1>2. Rendered("posts", mode) = PostsFieldset
  BY PostsForms DEF PostsFieldset
<1>3. PostsFieldset \subseteq Writable("posts", mode)
  BY <1>2, PostsForms
<1>4. Required("posts") \subseteq DOMAIN data
  BY <1>1, PostsForms
<1> QED  BY <1>1, <1>2, <1>3, <1>4 DEF ValidationErrors

-----------------------------------------------------------------------------
(* What the steps keep.                                                     *)

\* What stands in a form of a post stands after the step.
Grown ==
    \A c \in PostsFieldset \intersect Columns : \A v :
        \A o \in Nat : o <= writes /\ Stands(c, v, o) => Stands(c, v, o)'

\* The row moves on, if at all, so that what is under way can cope with it.
MovesOn ==
    /\ resource' = resource
    /\ writes \in Nat /\ writes' \in Nat /\ writes <= writes'
    /\ row # NoRow => resource # NoResource /\ row' # NoRow /\ Grown

LEMMA FormKept ==
    ASSUME NEW f, FormOK(f), MovesOn PROVE FormOK(f)'
<1>1. FormData(f)' = FormData(f)
  BY DEF FormData, MovesOn
<1>2. f.openedAt \in Nat /\ f.openedAt <= writes'
  <2>1. f.openedAt \in Nat /\ f.openedAt <= writes
    BY DEF FormOK
  <2>2. \A o \in Nat : o <= writes => o <= writes'
    BY DEF MovesOn
  <2> QED  BY <2>1, <2>2
<1>3. ASSUME f.mode = "update", resource = "posts", Fresh(FormData(f), f.typed, f.openedAt)
      PROVE  Fresh(FormData(f), f.typed, f.openedAt)'
  <2>1. PostsFieldset \subseteq Columns
    BY <1>3, PostsForms DEF Columns, NoResource, PostsFieldset
  <2>2. Grown
    BY <1>3 DEF FormOK, MovesOn
  <2>3. f.openedAt \in Nat /\ f.openedAt <= writes
    BY DEF FormOK
  <2> QED  BY <1>1, <1>3, <2>1, <2>2, <2>3 DEF Fresh, Grown
<1>4. Carries(FormData(f), f.typed)' <=> Carries(FormData(f), f.typed)
  BY <1>1 DEF Carries
<1>5. resource' = resource /\ (row # NoRow => row' # NoRow)
  BY DEF MovesOn
<1> QED  BY <1>2, <1>3, <1>4, <1>5 DEF FormOK

\* All of a submission but what it knows of the row.
LEMMA SubmissionKept ==
    ASSUME NEW p, PostOK(p), MovesOn
    PROVE  /\ ValidationErrors(resource', ModeOf(p), p.data) = {}
           /\ p.openedAt \in Nat /\ p.openedAt <= writes'
           /\ p.pc # "insert" => row' # NoRow /\ Fresh(p.data, p.typed, p.openedAt)'
<1>1. /\ p.openedAt \in Nat /\ p.openedAt <= writes
      /\ ValidationErrors(resource, ModeOf(p), p.data) = {}
  BY DEF PostOK
<1>2. ASSUME p.pc # "insert" PROVE row' # NoRow /\ Fresh(p.data, p.typed, p.openedAt)'
  <2>1. Fresh(p.data, p.typed, p.openedAt) /\ row # NoRow
    BY <1>2 DEF PostOK
  <2>2. DOMAIN p.data \subseteq DOMAIN Schema[resource]
    BY <1>1, Judged
  <2>3. ASSUME NEW c \in DOMAIN p.data \ DOMAIN p.typed
        PROVE  c \in PostsFieldset /\ Stands(c, p.data[c], p.openedAt)'
    <3>1. c \in PostsFieldset /\ Stands(c, p.data[c], p.openedAt)
      BY <2>1, <2>3 DEF Fresh
    <3>2. c \in Columns \/ resource = NoResource
      BY <2>2, <2>3 DEF Columns
    <3>3. resource # NoResource
      BY <2>1 DEF MovesOn
    <3> QED  BY <1>1, <2>1, <3>1, <3>2, <3>3 DEF MovesOn, Grown
  <2> QED  BY <2>1, <2>3 DEF Fresh, MovesOn
<1>3. p.openedAt \in Nat /\ p.openedAt <= writes'
  <2>1. \A o \in Nat : o <= writes => o <= writes'
    BY DEF MovesOn
  <2> QED  BY <1>1, <2>1
<1> QED  BY <1>1, <1>2, <1>3 DEF MovesOn

LEMMA PostKept ==
    ASSUME NEW p, PostOK(p), MovesOn,
           row # NoRow => (Visible' => Visible /\ row' = row)
    PROVE  PostOK(p)'
<1>1. Columns' = Columns
  BY DEF Columns, MovesOn
<1>2. p.pc = "update" /\ Visible' => \A c \in Columns' : p.before[c] # row'[c] => c \in p.others
  BY <1>1 DEF PostOK
<1>3. Carries(p.data, p.typed)
  BY DEF PostOK
<1> QED  BY <1>2, <1>3, SubmissionKept DEF PostOK, Carries, MovesOn

LEMMA SubmittedKept ==
    ASSUME NEW f, NEW p, Submitted(f, p), resource' = resource PROVE Submitted(f, p)'
  BY DEF Submitted, FormData

LEMMA PersonKept ==
    ASSUME NEW e, NEW f, NEW p, PersonOK(e, f, p), MovesOn,
           row # NoRow => (Visible' => Visible /\ row' = row)
    PROVE  PersonOK(e, f, p)'
<1>1. f # NoForm => FormOK(f)'
  BY FormKept DEF PersonOK
<1>2. p # NoPost => PostOK(p)'
  BY PostKept DEF PersonOK
<1>3. e \in Editors /\ p # NoPost => Submitted(f, p)'
  BY SubmittedKept DEF PersonOK, MovesOn
<1> QED  BY <1>1, <1>2, <1>3 DEF PersonOK, MovesOn

\* Nothing but forms and submissions moves.
Still == UNCHANGED <<resource, row, writes, formHistory>>

LEMMA PersonStill ==
    ASSUME NEW e, NEW f, NEW p, PersonOK(e, f, p), Still
    PROVE  PersonOK(e, f, p)'
  BY DEF Still, formHistory, PersonOK, FormOK, PostOK, Submitted, FormData, Carries, Fresh, Stands,
         Columns, Visible

LEMMA StillKept ==
    ASSUME Still, FormInv
    PROVE  /\ RowOK' /\ EditsAccounted' /\ ValidatedIsInsertable' /\ DiffsExplained'
<1>1. RowOK'
  BY DEF Still, formHistory, FormInv, RowOK, Columns, Visible
<1>2. EditsAccounted'
  BY DEF Still, formHistory, FormInv, EditsAccounted, Columns
<1>3. ValidatedIsInsertable' /\ DiffsExplained'
  BY DEF Still, formHistory, FormInv, ValidatedIsInsertable, DiffsExplained
<1> QED  BY <1>1, <1>2, <1>3

\* One of the people gets another form or another submission.
LEMMA OneMoves ==
    ASSUME FormInv, Still, NEW e \in People, NEW f, NEW p,
           form' = [form EXCEPT ![e] = f], post' = [post EXCEPT ![e] = p],
           PersonOK(e, f, p)
    PROVE  FormInv'
<1>1. form' = [d \in People |-> IF d = e THEN f ELSE form[d]]
  BY DEF FormInv, FormsIn
<1>2. post' = [d \in People |-> IF d = e THEN p ELSE post[d]]
  BY DEF FormInv, FormsIn
<1>3. form' = [d \in People |-> form'[d]] /\ post' = [d \in People |-> post'[d]]
  BY <1>1, <1>2
<1>4. ASSUME NEW d \in People PROVE PersonOK(d, form[d], post[d])'
  <2>1. CASE d = e
    <3>1. form'[d] = f /\ post'[d] = p
      BY <1>1, <1>2, <2>1
    <3>2. PersonOK(d, f, p)'
      BY <2>1, PersonStill
    <3> QED  BY <3>1, <3>2 DEF PersonOK
  <2>2. CASE d # e
    <3>1. form'[d] = form[d] /\ post'[d] = post[d]
      BY <1>1, <1>2, <2>2
    <3>2. PersonOK(d, form[d], post[d])
      BY DEF FormInv, FormsIn
    <3>3. ASSUME NEW g, NEW q, g = form[d], q = post[d] PROVE PersonOK(d, g, q)'
      BY <3>2, <3>3, PersonStill
    <3> QED  BY <3>1, <3>3 DEF PersonOK
  <2> QED  BY <2>1, <2>2
<1>5. FormsIn'
  BY <1>3, <1>4 DEF FormsIn, People
<1> QED  BY <1>5, StillKept DEF FormInv

-----------------------------------------------------------------------------
(* The steps of the forms.                                                  *)

LEMMA FormInitInv == ASSUME FormInit PROVE FormInv
<1>1. resource = NoResource /\ row = NoRow /\ writes = 0
  BY DEF FormInit
<1>2. RowOK /\ EditsAccounted
  BY <1>1 DEF RowOK, EditsAccounted
<1>3. FormsIn
  BY <1>1 DEF FormInit, FormsIn, PersonOK, People
<1>4. ValidatedIsInsertable /\ DiffsExplained
  BY DEF FormInit, ValidatedIsInsertable, DiffsExplained
<1> QED  BY <1>2, <1>3, <1>4 DEF FormInv

\* The parts of a form that is open, and what is posted while it is.
LEMMA OpenForm ==
    ASSUME FormInv, NEW e \in People, form[e] # NoForm
    PROVE  /\ FormOK(form[e]) /\ e \in Editors /\ resource \in Resources
           /\ form[e].mode \in {"create", "update"}
           /\ DOMAIN form[e].shown = Rendered(resource, form[e].mode)
<1>1. PersonOK(e, form[e], post[e])
  BY DEF FormInv, FormsIn
<1>2. FormOK(form[e])
  BY <1>1 DEF PersonOK
<1>3. e \in Editors
  BY <1>1 DEF PersonOK, People
<1>4. resource \in Resources
  BY <1>1 DEF PersonOK, FormInv, RowOK
<1>5. form[e].mode \in {"create", "update"}
  BY <1>2 DEF FormOK
<1>6. DOMAIN form[e].shown = Rendered(resource, form[e].mode)
  BY <1>2 DEF FormOK
<1> QED  BY <1>2, <1>3, <1>4, <1>5, <1>6

LEMMA SameForm ==
    ASSUME FormInv, NEW e \in People
    PROVE  form = [form EXCEPT ![e] = form[e]] /\ post = [post EXCEPT ![e] = post[e]]
  BY DEF FormInv, FormsIn

LEMMA OpenIsForm ==
    ASSUME NEW m \in {"create", "update"}, NEW s, NEW y, NEW o, NEW n
    PROVE  [mode |-> m, shown |-> s, typed |-> y, openedAt |-> o, notice |-> n] # NoForm
<1>1. ASSUME NEW f, f = [mode |-> m, shown |-> s, typed |-> y, openedAt |-> o, notice |-> n]
      PROVE  f.mode # "closed"
  BY <1>1
<1>2. NoForm.mode = "closed"
  BY DEF NoForm
<1> QED  BY <1>1, <1>2

LEMMA SentIsPost ==
    ASSUME NEW k \in {"insert", "find", "update"}, NEW d, NEW y, NEW o, NEW b, NEW s
    PROVE  [pc |-> k, data |-> d, typed |-> y, openedAt |-> o, before |-> b, others |-> s] # NoPost
<1>1. ASSUME NEW p,
             p = [pc |-> k, data |-> d, typed |-> y, openedAt |-> o, before |-> b, others |-> s]
      PROVE  p.pc # "idle"
  BY <1>1
<1>2. NoPost.pc = "idle"
  BY DEF NoPost
<1> QED  BY <1>1, <1>2

\* A refused form shows a message, and would post the same again.
LEMMA RefuseOK ==
    ASSUME FormInv, NEW e \in People, form[e] # NoForm, NEW data, data = FormData(form[e]),
           NEW errors, errors \intersect (DOMAIN form[e].shown \union {"_form"}) # {},
           Refuse(e, data, errors)
    PROVE  \E f : form' = [form EXCEPT ![e] = f] /\ f # NoForm /\ FormOK(f)
<1> DEFINE g == form[e]
           s == Shown(g.mode, data)
           f == [mode |-> g.mode, shown |-> s, typed |-> g.typed, openedAt |-> g.openedAt,
                 notice |-> "seen"]
<1>1. /\ FormOK(g) /\ resource \in Resources /\ g.mode \in {"create", "update"}
  BY OpenForm
<1>2. g = [mode |-> g.mode, shown |-> g.shown, typed |-> g.typed, openedAt |-> g.openedAt,
           notice |-> g.notice]
  BY <1>1 DEF FormOK
<1>3. form' = [form EXCEPT ![e].notice = "seen", ![e].shown = s]
  BY DEF Refuse, RenderValues
<1>4. form' = [form EXCEPT ![e] = f]
  <2> HIDE DEF s
  <2>1. form' = [form EXCEPT ![e] = [g EXCEPT !.notice = "seen", !.shown = s]]
    BY <1>3 DEF FormInv, FormsIn
  <2>2. PICK h : h = g
    OBVIOUS
  <2>3. h = [mode |-> h.mode, shown |-> h.shown, typed |-> h.typed, openedAt |-> h.openedAt,
             notice |-> h.notice]
    BY <1>2, <2>2
  <2>4. [h EXCEPT !.notice = "seen"] =
          [mode |-> h.mode, shown |-> h.shown, typed |-> h.typed, openedAt |-> h.openedAt,
           notice |-> "seen"]
    BY <2>3
  <2>5. ASSUME NEW k, k = [mode |-> h.mode, shown |-> h.shown, typed |-> h.typed,
                           openedAt |-> h.openedAt, notice |-> "seen"]
        PROVE  [k EXCEPT !.shown = s] =
                 [mode |-> h.mode, shown |-> s, typed |-> h.typed, openedAt |-> h.openedAt,
                  notice |-> "seen"]
    BY <2>5
  <2>6. [h EXCEPT !.notice = "seen", !.shown = s] =
          [mode |-> h.mode, shown |-> s, typed |-> h.typed, openedAt |-> h.openedAt,
           notice |-> "seen"]
    BY <2>4, <2>5, Zenon
  <2> QED  BY <2>1, <2>2, <2>6
<1>5. s = [c \in Rendered(resource, g.mode) |->
              IF c \in DOMAIN data THEN InputOf(resource, c, data[c]) ELSE ""]
  BY DEF Shown
<1>6. IsPosted(resource, g.mode, g.shown, data)
  <2>1. data = StripMeta(resource, Payload(resource, g.mode, g.shown))
    BY DEF FormData
  <2> QED  BY <1>1, <2>1, Posted
<1> HIDE DEF s
<1>7. /\ f.mode = g.mode /\ f.shown = s /\ f.typed = g.typed /\ f.openedAt = g.openedAt
      /\ f.notice = "seen"
  OBVIOUS
<1>8. f # NoForm
  BY <1>1, OpenIsForm
<1>9. f = [mode |-> f.mode, shown |-> f.shown, typed |-> f.typed, openedAt |-> f.openedAt,
           notice |-> f.notice]
  OBVIOUS
<1> HIDE DEF f
<1>10. f.mode = "create" /\ resource # "posts" => s["createdAt"] = ""
  <2>1. SUFFICES ASSUME f.mode = "create", resource # "posts" PROVE s["createdAt"] = ""
    OBVIOUS
  <2>2. "createdAt" \in Rendered(resource, g.mode)
    BY <1>1, <1>7, <2>1, OtherForms
  <2>3. g.shown["createdAt"] = ""
    BY <1>1, <1>7, <2>1 DEF FormOK
  <2>4. "createdAt" \in DOMAIN data => data["createdAt"] = Null
    BY <1>6, <2>3 DEF IsPosted, Typed
  <2> QED  BY <1>5, <2>2, <2>4 DEF InputOf
<1>11. resource = "posts" => FormData(f) = data
  <2>1. SUFFICES ASSUME resource = "posts" PROVE FormData(f) = data
    OBVIOUS
  <2>2. data = StripMeta("posts", Payload("posts", g.mode, g.shown))
    BY <2>1 DEF FormData
  <2>3. \A c \in PostsFieldset :
          s[c] = IF c \in DOMAIN data THEN InputOf("posts", c, data[c]) ELSE ""
    BY <1>5, <2>1, PostsForms DEF PostsFieldset
  <2>4. StripMeta("posts", Payload("posts", g.mode, s)) = data
    BY <2>2, <2>3, Rerendered DEF ShownAgain
  <2> QED  BY <1>7, <2>1, <2>4 DEF FormData
<1>12. FormOK(f)
  <2>1. /\ f.openedAt \in Nat /\ f.openedAt <= writes
        /\ f.mode = "update" => row # NoRow
    BY <1>1, <1>7 DEF FormOK
  <2>2. f.shown = [c \in Rendered(resource, f.mode) |-> f.shown[c]]
    BY <1>5, <1>7
  <2>3. resource = "posts" =>
          /\ Carries(FormData(f), f.typed)
          /\ f.mode = "update" => Fresh(FormData(f), f.typed, f.openedAt)
    BY <1>1, <1>7, <1>11 DEF FormOK
  <2> QED  BY <1>1, <1>7, <1>9, <1>10, <2>1, <2>2, <2>3 DEF FormOK
<1> QED  BY <1>4, <1>8, <1>12

LEMMA AbandonInv == ASSUME FormInv, NEW e \in Editors, Abandon(e) PROVE FormInv'
<1>1. e \in People /\ post[e] = NoPost /\ Still
  BY DEF People, Abandon, Still
<1>2. form' = [form EXCEPT ![e] = NoForm] /\ post' = [post EXCEPT ![e] = NoPost]
  BY <1>1, SameForm DEF Abandon, Show
<1>3. PersonOK(e, NoForm, NoPost)
  BY DEF PersonOK
<1> QED  BY <1>1, <1>2, <1>3, OneMoves

LEMMA OpenNewInv == ASSUME FormInv, NEW e \in Editors, OpenNew(e) PROVE FormInv'
<1> DEFINE f == Opened("create", Nothing)
<1>1. e \in People /\ post[e] = NoPost /\ Still
  BY DEF People, OpenNew, Still
<1>2. resource \in Resources /\ writes \in Nat
  BY DEF OpenNew, FormInv, RowOK
<1>3. f = [mode |-> "create", shown |-> Shown("create", Nothing), typed |-> Nothing,
           openedAt |-> writes, notice |-> "none"]
  BY DEF Opened
<1>4. DOMAIN Nothing = {}
  BY DEF Nothing
<1>5. Shown("create", Nothing) = [c \in Rendered(resource, "create") |-> ""]
  BY <1>4 DEF Shown
<1>6. /\ f.mode = "create" /\ f.shown = Shown("create", Nothing) /\ f.typed = Nothing
      /\ f.openedAt = writes /\ f.notice = "none"
  BY <1>3
<1>7. f # NoForm
  BY <1>3, OpenIsForm
<1>7a. f = [mode |-> f.mode, shown |-> f.shown, typed |-> f.typed, openedAt |-> f.openedAt,
            notice |-> f.notice]
  BY <1>3
<1> HIDE DEF f
<1>8. resource # "posts" => f.shown["createdAt"] = ""
  BY <1>2, <1>5, <1>6, OtherForms
<1>9. Carries(FormData(f), f.typed)
  BY <1>4, <1>6 DEF Carries
<1>10. FormOK(f)
  <2>1. f.shown = [c \in Rendered(resource, f.mode) |-> f.shown[c]]
    BY <1>5, <1>6
  <2>2. f.mode \in {"create", "update"} /\ f.notice \in {"none", "seen"} /\ f.mode # "update"
    BY <1>6
  <2>3. f.openedAt \in Nat /\ f.openedAt <= writes
    <3>1. writes \in Nat
      BY <1>2
    <3>2. writes <= writes
      BY <3>1
    <3> QED  BY <1>6, <3>1, <3>2
  <2> QED  BY <1>8, <1>9, <1>7a, <2>1, <2>2, <2>3 DEF FormOK
<1>11. PersonOK(e, f, NoPost)
  BY <1>2, <1>7, <1>10, FormConstants DEF PersonOK, OpenNew
<1>12. form' = [form EXCEPT ![e] = f] /\ post' = [post EXCEPT ![e] = NoPost]
  BY <1>1, SameForm DEF OpenNew, Show, f
<1> QED  BY <1>1, <1>11, <1>12, OneMoves

LEMMA OpenEditInv == ASSUME FormInv, NEW e \in Editors, OpenEdit(e) PROVE FormInv'
<1> DEFINE f == Opened("update", row)
           s == Shown("update", row)
<1>1. e \in People /\ post[e] = NoPost /\ Still
  BY DEF People, OpenEdit, Still
<1>2. /\ resource \in Resources /\ writes \in Nat /\ row \notin {NoRow, Gone}
      /\ row = [c \in Columns |-> row[c]] /\ \A c \in Columns : row[c] # ""
  BY DEF OpenEdit, FormInv, RowOK, Visible
<1>3. f = [mode |-> "update", shown |-> s, typed |-> Nothing, openedAt |-> writes,
           notice |-> "none"]
  BY DEF Opened
<1>4. DOMAIN Nothing = {}
  BY DEF Nothing
<1>5. s = [c \in Rendered(resource, "update") |->
              IF c \in DOMAIN row THEN InputOf(resource, c, row[c]) ELSE ""]
  BY DEF Shown
<1> HIDE DEF s
<1>6. /\ f.mode = "update" /\ f.shown = s /\ f.typed = Nothing
      /\ f.openedAt = writes /\ f.notice = "none"
  BY <1>3
<1>7. f # NoForm
  BY <1>3, OpenIsForm
<1>7a. f = [mode |-> f.mode, shown |-> f.shown, typed |-> f.typed, openedAt |-> f.openedAt,
            notice |-> f.notice]
  BY <1>3
<1> HIDE DEF f
<1>8. Carries(FormData(f), f.typed)
  BY <1>4, <1>6 DEF Carries
<1>9. ASSUME resource = "posts" PROVE Fresh(FormData(f), f.typed, f.openedAt)
  <2> DEFINE data == FormData(f)
  <2>1. PostsPosted(s, data)
    BY <1>6, <1>9, PostsData DEF FormData
  <2> HIDE DEF data
  <2>2. ASSUME NEW c \in DOMAIN data PROVE c \in PostsFieldset /\ Stands(c, data[c], writes)
    <3>1. c \in PostsFieldset /\ data[c] = Typed(s[c])
      BY <2>1, <2>2 DEF PostsPosted
    <3>2. c \in Columns /\ c \in Rendered(resource, "update")
      BY <1>9, <3>1, PostsForms DEF Columns, PostsFieldset, NoResource
    <3>3. s[c] = InputOf("posts", c, row[c]) /\ row[c] # ""
      BY <1>2, <1>5, <1>9, <3>2
    <3>4. s[c] = IF row[c] = Null THEN "" ELSE row[c]
      BY <3>1, <3>3, PostsInputs
    <3>5. data[c] = row[c]
      BY <3>1, <3>3, <3>4 DEF Typed
    <3>6. row[c] = lastTyped[c].value \/ c \in stale
      BY <1>2, <3>2 DEF FormInv, EditsAccounted
    <3> QED  BY <3>1, <3>5, <3>6 DEF Stands
  <2> QED  BY <1>6, <2>2 DEF Fresh, data
<1>10. FormOK(f)
  <2>1. f.shown = [c \in Rendered(resource, f.mode) |-> f.shown[c]]
    BY <1>5, <1>6
  <2>2. f.mode \in {"create", "update"} /\ f.notice \in {"none", "seen"} /\ f.mode # "create"
    BY <1>6
  <2>3. f.openedAt \in Nat /\ f.openedAt <= writes
    <3>1. writes \in Nat
      BY <1>2
    <3>2. writes <= writes
      BY <3>1
    <3> QED  BY <1>6, <3>1, <3>2
  <2> QED  BY <1>2, <1>8, <1>9, <1>7a, <2>1, <2>2, <2>3 DEF FormOK
<1>11. PersonOK(e, f, NoPost)
  BY <1>2, <1>7, <1>10, FormConstants DEF PersonOK, OpenEdit
<1>12. form' = [form EXCEPT ![e] = f] /\ post' = [post EXCEPT ![e] = NoPost]
  BY <1>1, SameForm DEF OpenEdit, Show, f
<1> QED  BY <1>1, <1>11, <1>12, OneMoves

LEMMA TypeInInv ==
    ASSUME FormInv, NEW e \in Editors, NEW c \in DOMAIN form[e].shown, NEW v \in Typable(c),
           TypeIn(e, c, v)
    PROVE  FormInv'
<1> DEFINE g == form[e]
           typed == [n \in DOMAIN g.typed \union {c} |-> IF n = c THEN v ELSE g.typed[n]]
           shown == [g.shown EXCEPT ![c] = v]
           f == [mode |-> g.mode, shown |-> shown, typed |-> typed, openedAt |-> g.openedAt,
                 notice |-> "none"]
<1>1. e \in People /\ post[e] = NoPost /\ Still /\ g # NoForm /\ ~IsReadOnly(resource, c)
  BY DEF People, TypeIn, Still
<1>2. /\ FormOK(g) /\ resource \in Resources /\ g.mode \in {"create", "update"}
      /\ c \in Rendered(resource, g.mode)
  BY <1>1, OpenForm
<1>3. g = [mode |-> g.mode, shown |-> g.shown, typed |-> g.typed, openedAt |-> g.openedAt,
           notice |-> g.notice]
  BY <1>2 DEF FormOK
<1>4. form' = [form EXCEPT ![e] = f]
  <2>1. form' = [form EXCEPT ![e] = [g EXCEPT !.shown[c] = v, !.typed = typed, !.notice = "none"]]
    BY DEF TypeIn, Show
  <2>2. PICK h : h = g
    OBVIOUS
  <2>3. h = [mode |-> h.mode, shown |-> h.shown, typed |-> h.typed, openedAt |-> h.openedAt,
             notice |-> h.notice]
    BY <1>3, <2>2
  <2>4. shown = [h.shown EXCEPT ![c] = v]
    BY <2>2
  <2> HIDE DEF typed, shown
  <2>5. [h EXCEPT !.shown[c] = v] =
          [mode |-> h.mode, shown |-> shown, typed |-> h.typed, openedAt |-> h.openedAt,
           notice |-> h.notice]
    BY <2>3, <2>4
  <2>6. ASSUME NEW k, k = [mode |-> h.mode, shown |-> shown, typed |-> h.typed,
                           openedAt |-> h.openedAt, notice |-> h.notice]
        PROVE  [k EXCEPT !.typed = typed] =
                 [mode |-> h.mode, shown |-> shown, typed |-> typed, openedAt |-> h.openedAt,
                  notice |-> h.notice]
    BY <2>6
  <2>7. ASSUME NEW k, k = [mode |-> h.mode, shown |-> shown, typed |-> typed,
                           openedAt |-> h.openedAt, notice |-> h.notice]
        PROVE  [k EXCEPT !.notice = "none"] =
                 [mode |-> h.mode, shown |-> shown, typed |-> typed, openedAt |-> h.openedAt,
                  notice |-> "none"]
    BY <2>7
  <2>8. [h EXCEPT !.shown[c] = v, !.typed = typed, !.notice = "none"] =
          [mode |-> h.mode, shown |-> shown, typed |-> typed, openedAt |-> h.openedAt,
           notice |-> "none"]
    BY <2>5, <2>6, <2>7, Zenon
  <2> QED  BY <2>1, <2>2, <2>8
<1>5. shown = [x \in Rendered(resource, g.mode) |-> IF x = c THEN v ELSE g.shown[x]]
  BY <1>2 DEF FormOK
<1>6. DOMAIN typed = DOMAIN g.typed \union {c} /\ typed[c] = v
      /\ \A x \in DOMAIN g.typed \ {c} : typed[x] = g.typed[x]
  OBVIOUS
<1> HIDE DEF typed, shown
<1>7. /\ f.mode = g.mode /\ f.shown = shown /\ f.typed = typed /\ f.openedAt = g.openedAt
      /\ f.notice = "none"
  OBVIOUS
<1>8. f # NoForm
  BY <1>2, OpenIsForm
<1>9. f = [mode |-> f.mode, shown |-> f.shown, typed |-> f.typed, openedAt |-> f.openedAt,
           notice |-> f.notice]
  OBVIOUS
<1> HIDE DEF f
<1>10. f.mode = "create" /\ resource # "posts" => shown["createdAt"] = ""
  <2>1. SUFFICES ASSUME f.mode = "create", resource # "posts" PROVE shown["createdAt"] = ""
    OBVIOUS
  <2>2. /\ "createdAt" \in Rendered(resource, g.mode) /\ IsReadOnly(resource, "createdAt")
        /\ g.shown["createdAt"] = ""
    BY <1>2, <1>7, <2>1, OtherForms DEF FormOK
  <2> QED  BY <1>1, <1>5, <2>2
<1>11. ASSUME resource = "posts"
       PROVE  /\ Carries(FormData(f), typed)
              /\ f.mode = "update" => Fresh(FormData(f), typed, g.openedAt)
  <2> DEFINE old == FormData(g)
             new == FormData(f)
  <2>1. PostsPosted(g.shown, old) /\ PostsPosted(shown, new)
    BY <1>7, <1>11, PostsData DEF FormData
  <2>2. Carries(old, g.typed) /\ (f.mode = "update" => Fresh(old, g.typed, g.openedAt))
    BY <1>2, <1>7, <1>11 DEF FormOK
  <2> HIDE DEF old, new
  <2>3. c \in PostsFieldset /\ Rendered(resource, g.mode) = PostsFieldset
    BY <1>2, <1>11, PostsForms DEF PostsFieldset
  <2>4. c = "status" => v \in {"draft", "published", "archived"}
    <3>1. SUFFICES ASSUME c = "status" PROVE v \in {"draft", "published", "archived"}
      OBVIOUS
    <3>2. Widget(resource, c) = "radio-group" /\ Widget(resource, c) # "autocomplete"
          /\ Widget(resource, c) # "datetime"
      BY <1>11, <3>1, PostsForms
    <3>3. Typable(c) = Overrides[resource].options[c]
      BY <3>2, Zenon DEF Typable
    <3> QED  BY <1>11, <3>1, <3>3, PostsForms
  <2>5. c \in DOMAIN new /\ new[c] = Typed(v)
    <3>1. shown[c] = v
      BY <1>5, <2>3
    <3> QED  BY <2>1, <2>3, <2>4, <3>1 DEF PostsPosted, PostsFieldset
  <2>6. ASSUME NEW x, x # c PROVE x \in DOMAIN new <=> x \in DOMAIN old
    <3>1. x \in PostsFieldset => shown[x] = g.shown[x]
      BY <1>5, <2>3, <2>6
    <3> QED  BY <2>1, <3>1 DEF PostsPosted, PostsFieldset
  <2>7. ASSUME NEW x \in DOMAIN old, x # c PROVE new[x] = old[x]
    <3>1. x \in PostsFieldset /\ x \in DOMAIN new
      BY <2>1, <2>6, <2>7 DEF PostsPosted
    <3>2. shown[x] = g.shown[x]
      BY <1>5, <2>3, <2>7, <3>1
    <3> QED  BY <2>1, <3>1, <3>2 DEF PostsPosted
  <2>8. Carries(new, typed)
    BY <1>6, <2>2, <2>5, <2>6, <2>7 DEF Carries
  <2>9. f.mode = "update" => Fresh(new, typed, g.openedAt)
    BY <1>6, <2>2, <2>6, <2>7 DEF Fresh
  <2> QED  BY <2>8, <2>9 DEF new
<1>12. FormOK(f)
  <2>1. /\ f.openedAt \in Nat /\ f.openedAt <= writes
        /\ f.mode = "update" => row # NoRow
    BY <1>2, <1>7 DEF FormOK
  <2>2. f.shown = [x \in Rendered(resource, f.mode) |-> f.shown[x]]
    BY <1>5, <1>7
  <2> QED  BY <1>2, <1>7, <1>9, <1>10, <1>11, <2>1, <2>2 DEF FormOK
<1>13. PersonOK(e, f, NoPost)
  <2>1. resource # NoResource
    BY <1>2, FiveResources DEF NoResource
  <2> QED  BY <1>8, <1>12, <2>1, FormConstants DEF PersonOK
<1>14. post' = [post EXCEPT ![e] = NoPost]
  BY <1>1, SameForm DEF TypeIn
<1> QED  BY <1>1, <1>4, <1>13, <1>14, OneMoves

\* Only the form of a post is accepted.
LEMMA SubmitInv == ASSUME FormInv, NEW e \in Editors, Submit(e) PROVE FormInv'
<1> DEFINE g == form[e]
           data == StripMeta(resource, Payload(resource, g.mode, g.shown))
           errors == ValidationErrors(resource, g.mode, data)
<1>1. e \in People /\ post[e] = NoPost /\ Still /\ g # NoForm
  BY DEF People, Submit, Still
<1>2. /\ FormOK(g) /\ resource \in Resources /\ g.mode \in {"create", "update"}
      /\ DOMAIN g.shown = Rendered(resource, g.mode)
  BY <1>1, OpenForm
<1>3. resource # NoResource
  BY <1>2, FiveResources DEF NoResource
<1>4. data = FormData(g)
  BY DEF FormData
<1>5. CASE errors = {}
  <2>1. Accept(e, g.mode, data, g.typed, g.openedAt) /\ UNCHANGED form
    BY <1>5 DEF Submit
  <2> HIDE DEF data
  <2>2. resource = "posts"
    <3>1. SUFFICES ASSUME resource # "posts" PROVE FALSE
      OBVIOUS
    <3>2. g.mode = "create" => g.shown["createdAt"] = ""
      BY <1>2, <3>1 DEF FormOK
    <3>3. ASSUME NEW t, t = resource, NEW m, m = g.mode, NEW s, s = g.shown
          PROVE  ValidationErrors(t, m, StripMeta(t, Payload(t, m, s)))
                   \intersect Rendered(t, m) # {}
      <4>1. t \in Resources \ {"posts"} /\ m \in {"create", "update"}
            /\ (m = "create" => s["createdAt"] = "")
        BY <1>2, <3>1, <3>2, <3>3
      <4> QED  BY <4>1, OthersRefused
    <3> QED  BY <1>5, <3>3 DEF data
  <2> DEFINE k == IF g.mode = "create" THEN "insert" ELSE "find"
             p == [pc |-> k, data |-> data, typed |-> g.typed, openedAt |-> g.openedAt,
                   before |-> NoRow, others |-> {}]
  <2>3. post' = [post EXCEPT ![e] = p]
    BY <2>1 DEF Accept
  <2>4. /\ p.pc = k /\ p.data = data /\ p.typed = g.typed /\ p.openedAt = g.openedAt
        /\ p.before = NoRow /\ p.others = {}
    OBVIOUS
  <2>5. p = [pc |-> p.pc, data |-> p.data, typed |-> p.typed, openedAt |-> p.openedAt,
             before |-> p.before, others |-> p.others]
    OBVIOUS
  <2>6. p # NoPost
    BY SentIsPost
  <2> HIDE DEF p
  <2>7. PostsPosted(g.shown, data)
    BY <2>2, PostsData DEF data
  <2>8. ModeOf(p) = g.mode
    BY <1>2, <2>4 DEF ModeOf
  <2>9. Carries(data, g.typed) /\ (g.mode = "update" => Fresh(data, g.typed, g.openedAt))
    BY <1>2, <1>4, <2>2 DEF FormOK
  <2>10. /\ g.openedAt \in Nat /\ g.openedAt <= writes
         /\ g.mode = "update" => row # NoRow
    BY <1>2 DEF FormOK
  <2>11. p.pc \in {"insert", "find"} /\ (p.pc = "insert" <=> g.mode = "create")
    BY <2>4
  <2>12. PostOK(p)
    BY <1>2, <1>5, <2>4, <2>5, <2>7, <2>8, <2>9, <2>10, <2>11 DEF PostOK, PostsPosted
  <2>13. Submitted(g, p)
    BY <1>1, <1>4, <2>2, <2>4 DEF Submitted
  <2>14. PersonOK(e, g, p)
    BY <1>1, <1>2, <1>3, <2>12, <2>13, FormConstants DEF PersonOK
  <2>15. form' = [form EXCEPT ![e] = g]
    BY <1>1, <2>1, SameForm
  <2> QED  BY <1>1, <2>3, <2>14, <2>15, OneMoves
<1>6. CASE errors # {}
  <2>1. Refuse(e, data, errors) /\ UNCHANGED post
    BY <1>6 DEF Submit
  <2>2. errors \intersect (DOMAIN g.shown \union {"_form"}) # {}
    <3> HIDE DEF data
    <3>1. CASE resource = "posts"
      <4>1. ASSUME NEW m, m = g.mode, NEW s, s = g.shown
            PROVE  ValidationErrors("posts", m, StripMeta("posts", Payload("posts", m, s)))
                     \subseteq Rendered("posts", m)
        BY <1>2, <4>1, PostsErrors
      <4>2. errors \subseteq Rendered(resource, g.mode)
        BY <3>1, <4>1 DEF data
      <4> QED  BY <1>2, <1>6, <4>2
    <3>2. CASE resource # "posts"
      <4>1. g.mode = "create" => g.shown["createdAt"] = ""
        BY <1>2, <3>2 DEF FormOK
      <4>2. ASSUME NEW t, t = resource, NEW m, m = g.mode, NEW s, s = g.shown
            PROVE  ValidationErrors(t, m, StripMeta(t, Payload(t, m, s)))
                   \intersect Rendered(t, m) # {}
        <5>1. t \in Resources \ {"posts"} /\ m \in {"create", "update"}
              /\ (m = "create" => s["createdAt"] = "")
          BY <1>2, <3>2, <4>1, <4>2
        <5> QED  BY <5>1, OthersRefused
      <4>3. errors \intersect Rendered(resource, g.mode) # {}
        BY <4>2 DEF data
      <4> QED  BY <1>2, <4>3
    <3> QED  BY <3>1, <3>2
  <2> HIDE DEF data, errors
  <2>3. PICK f : form' = [form EXCEPT ![e] = f] /\ f # NoForm /\ FormOK(f)
    BY <1>1, <1>4, <2>1, <2>2, RefuseOK
  <2>4. PersonOK(e, f, NoPost)
    BY <1>3, <2>3, FormConstants DEF PersonOK
  <2>5. post' = [post EXCEPT ![e] = NoPost]
    BY <1>1, <2>1, SameForm
  <2> QED  BY <1>1, <2>3, <2>4, <2>5, OneMoves
<1> QED  BY <1>5, <1>6

LEMMA SubmitDirectlyInv ==
    ASSUME FormInv, NEW e \in Clients, NEW mode \in {"create", "update"}, SubmitDirectly(e, mode)
    PROVE  FormInv'
<1>1. e \in People /\ Still /\ post[e] = NoPost /\ resource # NoResource
  BY DEF People, SubmitDirectly, Still
<1>2. resource \in Resources /\ writes \in Nat /\ (mode = "update" => row # NoRow)
  BY <1>1 DEF FormInv, RowOK, SubmitDirectly
<1>3. PICK data \in ClientBodies[resource][mode] : Accept(e, mode, data, data, writes)
  BY DEF SubmitDirectly
<1>4. /\ ValidationErrors(resource, mode, data) = {}
      /\ \A c \in DOMAIN data : data[c] # ""
  BY <1>2, <1>3, ClientData
<1> DEFINE k == IF mode = "create" THEN "insert" ELSE "find"
           p == [pc |-> k, data |-> data, typed |-> data, openedAt |-> writes,
                 before |-> NoRow, others |-> {}]
<1>5. post' = [post EXCEPT ![e] = p]
  BY <1>3 DEF Accept
<1>6. /\ p.pc = k /\ p.data = data /\ p.typed = data /\ p.openedAt = writes
      /\ p.before = NoRow /\ p.others = {}
  OBVIOUS
<1>7. p = [pc |-> p.pc, data |-> p.data, typed |-> p.typed, openedAt |-> p.openedAt,
           before |-> p.before, others |-> p.others]
  OBVIOUS
<1> HIDE DEF p
<1>8. ModeOf(p) = mode /\ p.pc \in {"insert", "find"} /\ (p.pc = "insert" <=> mode = "create")
  BY <1>6 DEF ModeOf
<1>9. Carries(data, data) /\ Fresh(data, data, writes)
  BY <1>4 DEF Carries, Fresh, Typed
<1>10. writes <= writes
  BY <1>2
<1>11. PostOK(p)
  BY <1>2, <1>4, <1>6, <1>7, <1>8, <1>9, <1>10 DEF PostOK
<1>12. form[e] = NoForm /\ e \notin Editors
  BY <1>1, FormConstants DEF FormInv, FormsIn, PersonOK
<1>13. PersonOK(e, form[e], p)
  BY <1>1, <1>11, <1>12 DEF PersonOK
<1>14. form' = [form EXCEPT ![e] = form[e]]
  BY <1>1, SameForm DEF SubmitDirectly
<1> QED  BY <1>1, <1>5, <1>13, <1>14, OneMoves

LEMMA SentPost ==
    ASSUME FormInv, NEW e \in People, post[e] # NoPost
    PROVE  /\ PostOK(post[e]) /\ resource \in Resources /\ writes \in Nat
           /\ e \in Editors => Submitted(form[e], post[e])
           /\ form[e] # NoForm => e \in Editors
<1>1. PersonOK(e, form[e], post[e])
  BY DEF FormInv, FormsIn
<1>2. resource \in Resources /\ writes \in Nat
  BY <1>1 DEF PersonOK, FormInv, RowOK
<1>3. form[e] # NoForm => e \in Editors
  BY <1>1 DEF PersonOK, People
<1> QED  BY <1>1, <1>2, <1>3 DEF PersonOK

LEMMA IdlePost == NoPost.pc = "idle"
  BY DEF NoPost

LEMMA FindBeforeInv == ASSUME FormInv, NEW e \in People, FindBefore(e) PROVE FormInv'
<1> DEFINE p == post[e]
           b == IF Visible THEN row ELSE NoRow
           q == [pc |-> "update", data |-> p.data, typed |-> p.typed, openedAt |-> p.openedAt,
                 before |-> b, others |-> p.others]
<1>1. p.pc = "find" /\ p # NoPost /\ Still
  BY IdlePost DEF FindBefore, Still
<1>2. PostOK(p) /\ (e \in Editors => Submitted(form[e], p)) /\ resource \in Resources
  BY <1>1, SentPost
<1>3. p = [pc |-> p.pc, data |-> p.data, typed |-> p.typed, openedAt |-> p.openedAt,
           before |-> p.before, others |-> p.others]
  BY <1>2 DEF PostOK
<1>4. post' = [post EXCEPT ![e] = q]
  <2> HIDE DEF b
  <2>1. post' = [post EXCEPT ![e] = [p EXCEPT !.pc = "update", !.before = b]]
    BY DEF FindBefore, FormInv, FormsIn, b
  <2>2. PICK h : h = p
    OBVIOUS
  <2>3. h = [pc |-> h.pc, data |-> h.data, typed |-> h.typed, openedAt |-> h.openedAt,
             before |-> h.before, others |-> h.others]
    BY <1>3, <2>2
  <2>4. [h EXCEPT !.pc = "update"] =
          [pc |-> "update", data |-> h.data, typed |-> h.typed, openedAt |-> h.openedAt,
           before |-> h.before, others |-> h.others]
    BY <2>3
  <2>5. ASSUME NEW k, k = [pc |-> "update", data |-> h.data, typed |-> h.typed,
                           openedAt |-> h.openedAt, before |-> h.before, others |-> h.others]
        PROVE  [k EXCEPT !.before = b] =
                 [pc |-> "update", data |-> h.data, typed |-> h.typed, openedAt |-> h.openedAt,
                  before |-> b, others |-> h.others]
    BY <2>5
  <2>6. [h EXCEPT !.pc = "update", !.before = b] =
          [pc |-> "update", data |-> h.data, typed |-> h.typed, openedAt |-> h.openedAt,
           before |-> b, others |-> h.others]
    BY <2>4, <2>5, Zenon
  <2> QED  BY <2>1, <2>2, <2>6
<1>5. Visible => b = row
  OBVIOUS
<1> HIDE DEF b
<1>6. /\ q.pc = "update" /\ q.data = p.data /\ q.typed = p.typed /\ q.openedAt = p.openedAt
      /\ q.before = b /\ q.others = p.others
  OBVIOUS
<1>7. q = [pc |-> q.pc, data |-> q.data, typed |-> q.typed, openedAt |-> q.openedAt,
           before |-> q.before, others |-> q.others]
  OBVIOUS
<1>8. q # NoPost
  BY SentIsPost
<1> HIDE DEF q
<1>9. ModeOf(p) = "update" /\ ModeOf(q) = "update"
  BY <1>1, <1>6 DEF ModeOf
<1>10. /\ ValidationErrors(resource, "update", p.data) = {}
       /\ \A c \in DOMAIN p.data : p.data[c] # ""
       /\ Carries(p.data, p.typed)
       /\ p.openedAt \in Nat /\ p.openedAt <= writes
       /\ row # NoRow /\ Fresh(p.data, p.typed, p.openedAt)
  BY <1>1, <1>2, <1>9 DEF PostOK
<1>11. PostOK(q)
  BY <1>5, <1>6, <1>7, <1>9, <1>10 DEF PostOK
<1>12. PersonOK(e, form[e], p)
  BY DEF FormInv, FormsIn
<1>13. e \in Editors => Submitted(form[e], q)
  BY <1>2, <1>6 DEF Submitted
<1>14. PersonOK(e, form[e], q)
  BY <1>1, <1>11, <1>12, <1>13 DEF PersonOK
<1>15. form' = [form EXCEPT ![e] = form[e]]
  BY SameForm DEF FindBefore
<1> QED  BY <1>1, <1>4, <1>14, <1>15, OneMoves

\* The person gets the page of the row, or a 404.
LEMMA NobodyOK ==
    ASSUME FormInv, NEW e, resource # NoResource PROVE PersonOK(e, NoForm, NoPost)
  BY DEF PersonOK

LEMMA UpdateMissingInv == ASSUME FormInv, NEW e \in People, UpdateMissing(e) PROVE FormInv'
<1>1. post[e] # NoPost /\ Still
  BY IdlePost DEF UpdateMissing, Still
<1>2. form' = [form EXCEPT ![e] = NoForm] /\ post' = [post EXCEPT ![e] = NoPost]
  BY DEF UpdateMissing, Leave, Show
<1>3. resource # NoResource
  BY <1>1, SentPost, FiveResources DEF NoResource
<1> QED  BY <1>1, <1>2, <1>3, NobodyOK, OneMoves

\* What the database refuses of valid data is shown above the form, which is kept.
LEMMA RepoRefusesInv ==
    ASSUME FormInv, NEW e \in People, post[e] # NoPost,
           NEW errors, errors \subseteq Foreseen, RepoRefuses(e, errors)
    PROVE  FormInv'
<1>1. errors \ Foreseen = {}
  OBVIOUS
<1>2. Still
  BY <1>1 DEF RepoRefuses, Still, formHistory
<1>3. resource # NoResource /\ (e \in Editors => Submitted(form[e], post[e]))
      /\ (form[e] # NoForm => e \in Editors)
  BY SentPost, FiveResources DEF NoResource
<1>4. post' = [post EXCEPT ![e] = NoPost] /\ Refuse(e, post[e].data, {"_form"})
  BY DEF RepoRefuses
<1>5. CASE form[e] = NoForm
  <2>1. form' = [form EXCEPT ![e] = NoForm]
    BY <1>4, <1>5, SameForm DEF Refuse
  <2> QED  BY <1>2, <1>3, <1>4, <2>1, NobodyOK, OneMoves
<1>6. CASE form[e] # NoForm
  <2>1. post[e].data = FormData(form[e])
    BY <1>3, <1>6 DEF Submitted
  <2>2. PICK f : form' = [form EXCEPT ![e] = f] /\ f # NoForm /\ FormOK(f)
    <3>1. ASSUME NEW d, d = post[e].data, NEW s, s = {"_form"}
          PROVE  \E f : form' = [form EXCEPT ![e] = f] /\ f # NoForm /\ FormOK(f)
      <4>1. d = FormData(form[e]) /\ Refuse(e, d, s)
            /\ s \intersect (DOMAIN form[e].shown \union {"_form"}) # {}
        BY <1>4, <2>1, <3>1
      <4> QED  BY <1>6, <4>1, RefuseOK
    <3> QED  BY <3>1
  <2>3. PersonOK(e, f, NoPost)
    BY <1>3, <1>6, <2>2, FormConstants DEF PersonOK
  <2> QED  BY <1>2, <1>4, <2>2, <2>3, OneMoves
<1> QED  BY <1>5, <1>6

LEMMA StatementFailsInv == ASSUME FormInv, NEW e \in People, StatementFails(e) PROVE FormInv'
<1>1. PICK errors : errors = Unsound(e)
  OBVIOUS
<1>2. post[e] # NoPost /\ RepoRefuses(e, errors)
  BY <1>1, IdlePost DEF StatementFails
<1>3. PostOK(post[e]) /\ resource \in Resources
  BY <1>2, SentPost
<1>4. ValidationErrors(resource, ModeOf(post[e]), post[e].data) = {}
  BY <1>3 DEF PostOK
<1>5. errors \subseteq Foreseen
  BY <1>1, <1>3, <1>4, StatementForeseen DEF Unsound, ModeOf
<1> QED  BY <1>2, <1>5, RepoRefusesInv

\* The row of a resource.
LEMMA TheRow ==
    ASSUME FormInv, resource # NoResource
    PROVE  /\ resource \in Resources /\ writes \in Nat /\ Columns = DOMAIN Schema[resource]
           /\ "id" \in Columns
           /\ lastTyped = [c \in Columns |-> lastTyped[c]]
           /\ \A c \in Columns : lastTyped[c].nr \in Nat /\ lastTyped[c].nr <= writes
           /\ row \notin {NoRow, Gone} =>
                row = [c \in Columns |-> row[c]] /\ \A c \in Columns : row[c] # ""
           /\ Visible => Fits(resource, row)
<1>1. resource \in Resources /\ writes \in Nat /\ Columns = DOMAIN Schema[resource]
  BY DEF FormInv, RowOK, Columns
<1>2. "id" \in Columns
  BY <1>1, TableKeys
<1>3. /\ lastTyped = [c \in Columns |-> lastTyped[c]]
      /\ \A c \in Columns : lastTyped[c].nr \in Nat /\ lastTyped[c].nr <= writes
  BY DEF FormInv, RowOK
<1>4. /\ row \notin {NoRow, Gone} =>
           row = [c \in Columns |-> row[c]] /\ \A c \in Columns : row[c] # ""
      /\ Visible => Fits(resource, row)
  BY DEF FormInv, RowOK, Visible
<1> QED  BY <1>1, <1>2, <1>3, <1>4

\* The submission that writes closes its form; those that wait for their update learn what
\* it changed.
LEMMA OthersTold ==
    ASSUME NEW p, PostOK(p), p.pc = "update", MovesOn, Visible,
           NEW own, own = {c \in Columns : row[c] # row'[c]},
           NEW q, q = [p EXCEPT !.others = @ \union own]
    PROVE  /\ PostOK(q)' /\ q # NoPost
           /\ \A f : Submitted(f, p) => Submitted(f, q)
<1>1. p = [pc |-> p.pc, data |-> p.data, typed |-> p.typed, openedAt |-> p.openedAt,
           before |-> p.before, others |-> p.others]
  BY DEF PostOK
<1> DEFINE told == p.others \union own
<1>2. q = [p EXCEPT !.others = told]
  OBVIOUS
<1> HIDE DEF told
<1>3. q = [pc |-> p.pc, data |-> p.data, typed |-> p.typed, openedAt |-> p.openedAt,
           before |-> p.before, others |-> told]
  BY <1>1, <1>2
<1>4. /\ q.pc = p.pc /\ q.data = p.data /\ q.typed = p.typed /\ q.openedAt = p.openedAt
      /\ q.before = p.before /\ q.others = told
  BY <1>3
<1>5. q = [pc |-> q.pc, data |-> q.data, typed |-> q.typed, openedAt |-> q.openedAt,
           before |-> q.before, others |-> q.others]
  BY <1>3
<1>6. ModeOf(q) = ModeOf(p)
  BY <1>4 DEF ModeOf
<1>7. Columns' = Columns
  BY DEF Columns, MovesOn
<1>8. ASSUME NEW c \in Columns, p.before[c] # row'[c] PROVE c \in told
  <2>1. p.before[c] # row[c] => c \in p.others
    BY DEF PostOK
  <2> QED  BY <1>8, <2>1 DEF told
<1>9. q # NoPost
  BY <1>4, IdlePost
<1>10. /\ ValidationErrors(resource', ModeOf(p), p.data) = {}
       /\ p.openedAt \in Nat /\ p.openedAt <= writes'
       /\ row' # NoRow /\ Fresh(p.data, p.typed, p.openedAt)'
  BY SubmissionKept
<1>11. Carries(p.data, p.typed) /\ \A c \in DOMAIN p.data : p.data[c] # ""
  BY DEF PostOK
<1>12. Fresh(q.data, q.typed, q.openedAt)'
  BY <1>4, <1>10 DEF Fresh, Stands
<1>13. Carries(q.data, q.typed)'
  BY <1>4, <1>11 DEF Carries
<1>14. PostOK(q)'
  BY <1>4, <1>5, <1>6, <1>7, <1>8, <1>10, <1>11, <1>12, <1>13 DEF PostOK
<1>15. \A f : Submitted(f, p) => Submitted(f, q)
  BY <1>4 DEF Submitted
<1> QED  BY <1>9, <1>14, <1>15

\* What an accepted update makes of the row.
Carried(data, new) ==
    /\ new = [c \in Columns |-> new[c]]
    /\ \A c \in DOMAIN data : c \in Columns /\ new[c] = data[c]
    /\ \A c \in Columns \ DOMAIN data : new[c] = row[c]
    /\ \A c \in Columns : new[c] # ""
    /\ Fits(resource, new)

LEMMA UpdatedFits ==
    ASSUME FormInv, NEW p, PostOK(p), p.pc = "update", Visible, resource # NoResource,
           NEW new, new = Updated(row, p.data)
    PROVE  Carried(p.data, new)
<1>1. row \notin {NoRow, Gone}
  BY DEF Visible
<1>2. /\ Columns = DOMAIN Schema[resource] /\ row = [c \in Columns |-> row[c]]
      /\ \A c \in Columns : row[c] # ""
      /\ Fits(resource, row)
  BY <1>1, TheRow
<1>3. ModeOf(p) = "update"
  BY DEF ModeOf
<1>4. ValidationErrors(resource, "update", p.data) = {} /\ \A c \in DOMAIN p.data : p.data[c] # ""
  BY <1>3 DEF PostOK
<1>5. DOMAIN p.data \subseteq Columns /\ \A c \in DOMAIN p.data : Accepts(resource, c, p.data[c])
  BY <1>2, <1>4, Judged
<1>6. DOMAIN row = Columns
  BY <1>2
<1>7. new = [c \in Columns |-> IF c \in DOMAIN p.data THEN p.data[c] ELSE row[c]]
  BY <1>6 DEF Updated
<1>8. Fits(resource, new)
  BY <1>2, <1>5, <1>6, <1>7 DEF Fits
<1> QED  BY <1>2, <1>4, <1>5, <1>7, <1>8 DEF Carried

LEMMA UpdateRowInv == ASSUME FormInv, NEW e \in People, UpdateRow(e) PROVE FormInv'
<1>1. PICK p : p = post[e]
  OBVIOUS
<1>2. PICK new : new = Updated(row, p.data)
  OBVIOUS
<1>3. PICK own : own = {c \in Columns : row[c] # new[c]}
  OBVIOUS
<1> DEFINE errors == RepoErrors(resource, new)
           now == writes + 1
<1>4. p.pc = "update" /\ Visible /\ p # NoPost
  BY <1>1, IdlePost DEF UpdateRow
<1>5. /\ PostOK(p) /\ resource \in Resources /\ writes \in Nat
      /\ e \in Editors => Submitted(form[e], p)
  BY <1>1, <1>4, SentPost
<1>6. resource # NoResource /\ row \notin {NoRow, Gone}
  BY <1>4, <1>5, FiveResources DEF NoResource, Visible
<1>7. /\ Columns = DOMAIN Schema[resource] /\ "id" \in Columns
      /\ lastTyped = [c \in Columns |-> lastTyped[c]]
      /\ \A c \in Columns : lastTyped[c].nr \in Nat /\ lastTyped[c].nr <= writes
      /\ row = [c \in Columns |-> row[c]] /\ \A c \in Columns : row[c] # ""
      /\ Fits(resource, row)
  BY <1>4, <1>6, TheRow
<1>8. Carried(p.data, new)
  BY <1>2, <1>4, <1>5, <1>6, UpdatedFits
<1> USE DEF Carried
<1>9. errors \subseteq {"foreign key"}
  BY <1>8, FitsErrors
<1>10. CASE errors # {}
  <2>1. RepoRefuses(e, errors)
    BY <1>1, <1>2, <1>10 DEF UpdateRow
  <2>2. PICK s : s = errors
    OBVIOUS
  <2>3. s \subseteq Foreseen /\ RepoRefuses(e, s) /\ post[e] # NoPost
    BY <1>1, <1>4, <1>9, <2>1, <2>2 DEF Foreseen
  <2> QED  BY <2>3, RepoRefusesInv
<1>11. CASE errors = {}
  <2>1. /\ row' = new /\ writes' = now
        /\ misdiffed' = misdiffed \union
             (Differ(Diff(ReadBefore(p.before, new), new), own) \ (p.others \union Dates))
        /\ lastTyped' = [c \in Columns |->
             IF c \in DOMAIN p.typed
               THEN [value |-> Typed(p.typed[c]), nr |-> now] ELSE lastTyped[c]]
        /\ stale' = (stale \ DOMAIN p.typed) \union
                      {c \in DOMAIN p.data \ DOMAIN p.typed : p.openedAt < lastTyped[c].nr}
        /\ resource' = resource /\ refusals' = refusals
    BY <1>1, <1>2, <1>3, <1>11 DEF UpdateRow
  <2>2. Leave(e, [d \in Editors \union Clients |->
             IF post[d].pc = "update" THEN [post[d] EXCEPT !.others = @ \union own]
                                      ELSE post[d]])
    BY <1>1, <1>2, <1>3, <1>11 DEF UpdateRow
  <2>3. /\ Carries(p.data, p.typed) /\ Fresh(p.data, p.typed, p.openedAt)
        /\ p.openedAt \in Nat /\ p.openedAt <= writes
        /\ \A c \in Columns : p.before[c] # row[c] => c \in p.others
    BY <1>4, <1>5 DEF PostOK
  <2>4. Columns' = Columns
    BY <2>1 DEF Columns
  <2>5. row' # NoRow /\ row' # Gone
    BY <1>5, <1>7, <1>8, <2>1, RealRow
  <2>6. Grown
    <3>1. SUFFICES ASSUME NEW c \in Columns, NEW v, NEW o \in Nat, o <= writes, Stands(c, v, o)
                   PROVE  Stands(c, v, o)'
      BY DEF Grown
    <3>2. CASE c \in DOMAIN p.typed
      <4>1. lastTyped'[c] = [value |-> Typed(p.typed[c]), nr |-> now]
        BY <2>1, <3>2
      <4>2. lastTyped'[c].nr = now
        BY <4>1
      <4>3. o < now
        BY <1>5, <3>1
      <4> QED  BY <4>2, <4>3 DEF Stands
    <3>3. CASE c \notin DOMAIN p.typed
      <4>1. lastTyped'[c] = lastTyped[c] /\ (c \in stale => c \in stale')
        BY <2>1, <3>3
      <4> QED  BY <3>1, <4>1 DEF Stands
    <3> QED  BY <3>2, <3>3
  <2>7. MovesOn
    BY <1>5, <1>6, <2>1, <2>5, <2>6 DEF MovesOn
  <2>8. RowOK'
    <3>1. /\ row' = [c \in Columns' |-> row'[c]] /\ \A c \in Columns' : row'[c] # ""
          /\ Fits(resource', row')
      BY <1>8, <2>1, <2>4
    <3>2. lastTyped' = [c \in Columns' |-> lastTyped'[c]]
      BY <2>1, <2>4
    <3>3. ASSUME NEW c \in Columns PROVE lastTyped'[c].nr \in Nat /\ lastTyped'[c].nr <= writes'
      <4>1. CASE c \in DOMAIN p.typed
        <5>1. lastTyped'[c] = [value |-> Typed(p.typed[c]), nr |-> now]
          BY <2>1, <4>1
        <5>2. lastTyped'[c].nr = now
          BY <5>1
        <5>3. now \in Nat /\ now <= now
          BY <1>5
        <5> QED  BY <2>1, <5>2, <5>3
      <4>2. CASE c \notin DOMAIN p.typed
        <5>1. lastTyped'[c].nr = lastTyped[c].nr
          BY <2>1, <4>2
        <5>2. lastTyped[c].nr \in Nat /\ lastTyped[c].nr <= writes
          BY <1>7
        <5> QED  BY <1>5, <2>1, <5>1, <5>2
      <4> QED  BY <4>1, <4>2
    <3>4. writes' \in Nat
      BY <1>5, <2>1
    <3> QED  BY <1>5, <1>6, <2>1, <2>4, <3>1, <3>2, <3>3, <3>4 DEF RowOK
  <2>9. EditsAccounted'
    <3>1. ASSUME NEW c \in Columns PROVE row'[c] = lastTyped'[c].value \/ c \in stale'
      <4>1. CASE c \in DOMAIN p.typed
        <5>1. lastTyped'[c] = [value |-> Typed(p.typed[c]), nr |-> now]
          BY <2>1, <4>1
        <5>2. lastTyped'[c].value = Typed(p.typed[c])
          BY <5>1
        <5>3. c \in DOMAIN p.data /\ p.data[c] = Typed(p.typed[c])
          BY <2>3, <4>1 DEF Carries
        <5> QED  BY <1>8, <2>1, <5>2, <5>3
      <4>2. CASE c \in DOMAIN p.data \ DOMAIN p.typed
        <5>1. lastTyped'[c] = lastTyped[c] /\ row'[c] = p.data[c]
          BY <1>8, <2>1, <4>2
        <5>2. p.openedAt < lastTyped[c].nr \/ c \in stale \/ p.data[c] = lastTyped[c].value
          BY <2>3, <4>2 DEF Fresh, Stands
        <5>3. p.openedAt < lastTyped[c].nr \/ c \in stale => c \in stale'
          BY <2>1, <4>2
        <5> QED  BY <5>1, <5>2, <5>3
      <4>3. CASE c \notin DOMAIN p.data /\ c \notin DOMAIN p.typed
        <5>1. lastTyped'[c] = lastTyped[c] /\ row'[c] = row[c]
          BY <1>8, <2>1, <4>3
        <5>2. row[c] = lastTyped[c].value \/ c \in stale
          BY <1>6 DEF FormInv, EditsAccounted
        <5>3. c \in stale => c \in stale'
          BY <2>1, <4>3
        <5> QED  BY <5>1, <5>2, <5>3
      <4> QED  BY <4>1, <4>2, <4>3
    <3> QED  BY <2>4, <3>1 DEF EditsAccounted
  <2>10. DiffsExplained'
    <3>1. ASSUME NEW c \in Columns, c \notin p.others, c \notin Dates
          PROVE  c \in Diff(p.before, new) <=> c \in own
      <4>1. p.before[c] = row[c]
        BY <2>3, <3>1
      <4>2. Col(resource, c).type # "timestamptz"
        BY <3>1 DEF Dates
      <4> QED  BY <1>3, <3>1, <4>1, <4>2 DEF Diff
    <3>2. Diff(p.before, new) \subseteq Columns /\ own \subseteq Columns
      BY <1>3 DEF Diff
    <3>3. Differ(Diff(p.before, new), own) \ (p.others \union Dates) = {}
      BY <3>1, <3>2 DEF Differ
    <3>4. misdiffed = {}
      BY DEF FormInv, DiffsExplained
    <3> QED  BY <2>1, <3>3, <3>4 DEF DiffsExplained, ReadBefore
  <2>11. ValidatedIsInsertable'
    BY <2>1 DEF FormInv, ValidatedIsInsertable
  <2>12. form' = [d \in People |-> IF d = e THEN NoForm ELSE form[d]]
    BY <2>2 DEF Leave, Show, FormInv, FormsIn
  <2>13. post' = [d \in People |->
            IF d = e THEN NoPost
            ELSE IF post[d].pc = "update" THEN [post[d] EXCEPT !.others = @ \union own]
                                          ELSE post[d]]
    BY <2>2 DEF Leave, People
  <2>14. own = {c \in Columns : row[c] # row'[c]}
    BY <1>3, <2>1
  <2>15. ASSUME NEW d \in People PROVE PersonOK(d, form[d], post[d])'
    <3>1. CASE d = e
      <4>1. form'[d] = NoForm /\ post'[d] = NoPost
        BY <2>12, <2>13, <3>1
      <4> QED  BY <1>6, <2>1, <4>1 DEF PersonOK
    <3>2. CASE d # e
      <4>1. PICK f, q : f = form[d] /\ q = post[d]
        OBVIOUS
      <4>2. PersonOK(d, f, q)
        BY <4>1 DEF FormInv, FormsIn
      <4>3. form'[d] = f
        BY <2>12, <3>2, <4>1
      <4>4. f # NoForm => FormOK(f)'
        BY <2>7, <4>2, FormKept DEF PersonOK
      <4>5. CASE q.pc = "update"
        <5>1. PICK r : r = [q EXCEPT !.others = @ \union own]
          OBVIOUS
        <5>2. post'[d] = r
          BY <2>13, <3>2, <4>1, <4>5, <5>1
        <5>3. PostOK(q) /\ q # NoPost
          BY <4>2, <4>5, IdlePost DEF PersonOK
        <5>4. PostOK(r)' /\ r # NoPost /\ (Submitted(f, q) => Submitted(f, r))
          BY <1>4, <2>7, <2>14, <4>5, <5>1, <5>3, OthersTold
        <5>5. d \in Editors => Submitted(f, r)'
          BY <2>1, <4>2, <5>3, <5>4, SubmittedKept DEF PersonOK
        <5>6. PersonOK(d, f, r)'
          BY <1>6, <2>1, <4>2, <4>4, <5>4, <5>5 DEF PersonOK
        <5> QED  BY <4>3, <5>2, <5>6 DEF PersonOK
      <4>6. CASE q.pc # "update"
        <5>1. post'[d] = q
          BY <2>13, <3>2, <4>1, <4>6
        <5>2. q # NoPost => PostOK(q)'
          <6>1. SUFFICES ASSUME q # NoPost PROVE PostOK(q)'
            OBVIOUS
          <6>2. PostOK(q)
            BY <4>2, <6>1 DEF PersonOK
          <6>3. Carries(q.data, q.typed)'
            BY <6>2 DEF PostOK, Carries
          <6> QED  BY <2>7, <4>6, <6>2, <6>3, SubmissionKept DEF PostOK
        <5>3. d \in Editors /\ q # NoPost => Submitted(f, q)'
          BY <2>1, <4>2, SubmittedKept DEF PersonOK
        <5>4. PersonOK(d, f, q)'
          BY <1>6, <2>1, <4>2, <4>4, <5>2, <5>3 DEF PersonOK
        <5> QED  BY <4>3, <5>1, <5>4 DEF PersonOK
      <4> QED  BY <4>5, <4>6
    <3> QED  BY <3>1, <3>2
  <2>16. FormsIn'
    <3>1. form' = [d \in People |-> form'[d]] /\ post' = [d \in People |-> post'[d]]
      BY <2>12, <2>13
    <3> QED  BY <2>15, <3>1 DEF FormsIn, People
  <2> QED  BY <2>8, <2>9, <2>10, <2>11, <2>16 DEF FormInv
<1> QED  BY <1>10, <1>11

\* The row moves on, and the submission of e, if any, is over.
LEMMA EveryoneKept ==
    ASSUME FormInv, MovesOn, row # NoRow => (Visible' => Visible /\ row' = row),
           resource # NoResource,
           \/ UNCHANGED <<form, post>>
           \/ \E e \in People : /\ form' = [form EXCEPT ![e] = NoForm]
                              /\ post' = [post EXCEPT ![e] = NoPost]
    PROVE  FormsIn'
<1>1. form = [d \in People |-> form[d]] /\ post = [d \in People |-> post[d]]
  BY DEF FormInv, FormsIn
<1>2. form' = [d \in People |-> form'[d]] /\ post' = [d \in People |-> post'[d]]
  BY <1>1
<1>3. ASSUME NEW d \in People
      PROVE  \/ form'[d] = form[d] /\ post'[d] = post[d]
             \/ form'[d] = NoForm /\ post'[d] = NoPost
  BY <1>1
<1>4. ASSUME NEW d \in People PROVE PersonOK(d, form[d], post[d])'
  <2>1. PICK f, p : f = form[d] /\ p = post[d]
    OBVIOUS
  <2>2. PersonOK(d, f, p)
    BY <2>1 DEF FormInv, FormsIn
  <2>3. PersonOK(d, f, p)'
    BY <2>2, PersonKept
  <2>4. PersonOK(d, NoForm, NoPost)'
    BY DEF PersonOK, MovesOn
  <2> QED  BY <1>3, <2>1, <2>3, <2>4 DEF PersonOK
<1> QED  BY <1>2, <1>4 DEF FormsIn, People

LEMMA InsertRowInv == ASSUME FormInv, NEW e \in People, InsertRow(e) PROVE FormInv'
<1>1. PICK p : p = post[e]
  OBVIOUS
<1>2. PICK new : new = Inserted(resource, p.data)
  OBVIOUS
<1>3. PICK errors : errors = RepoErrors(resource, new) \union
                       IF row \notin {NoRow, Gone} /\ Collides(resource, row, new)
                         THEN {"unique"} ELSE {}
  OBVIOUS
<1>4. p.pc = "insert" /\ p # NoPost
  BY <1>1, IdlePost DEF InsertRow
<1>5. PostOK(p) /\ resource \in Resources /\ writes \in Nat
  BY <1>1, <1>4, SentPost
<1>6. resource # NoResource
  BY <1>5, FiveResources DEF NoResource
<1>7. /\ Columns = DOMAIN Schema[resource] /\ "id" \in Columns
      /\ lastTyped = [c \in Columns |-> lastTyped[c]]
      /\ \A c \in Columns : lastTyped[c].nr \in Nat /\ lastTyped[c].nr <= writes
  BY <1>6, TheRow
<1>8. /\ ValidationErrors(resource, "create", p.data) = {}
      /\ \A c \in DOMAIN p.data : p.data[c] # ""
      /\ Carries(p.data, p.typed)
  BY <1>4, <1>5 DEF PostOK, ModeOf
<1>9. /\ new = [c \in Columns |-> new[c]]
      /\ \A c \in DOMAIN p.data : c \in Columns /\ new[c] = p.data[c]
      /\ \A c \in Columns : new[c] # ""
      /\ Fits(resource, new)
  <2>1. Filled(resource, p.data, new)
    BY <1>2, <1>5, <1>8, InsertedFits
  <2> QED  BY <1>7, <2>1 DEF Filled
<1>10. errors \subseteq Foreseen
  BY <1>3, <1>9, FitsErrors DEF Foreseen
<1>11. CASE errors # {}
  <2>1. RepoRefuses(e, errors)
    BY <1>1, <1>2, <1>3, <1>11 DEF InsertRow
  <2> QED  BY <1>1, <1>4, <1>10, <2>1, RepoRefusesInv
<1>12. CASE errors = {}
  <2>1. /\ writes' = writes + 1
        /\ IF row = NoRow
             THEN /\ row' = new
                  /\ lastTyped' = [c \in Columns |->
                       [value |-> IF c \in DOMAIN p.typed THEN Typed(p.typed[c]) ELSE new[c],
                        nr |-> writes + 1]]
             ELSE UNCHANGED <<row, lastTyped>>
        /\ Leave(e, post)
        /\ UNCHANGED <<resource, stale, misdiffed, refusals>>
    BY <1>1, <1>2, <1>3, <1>12 DEF InsertRow
  <2>2. Columns' = Columns
    BY <2>1 DEF Columns
  <2>3. writes' \in Nat /\ writes <= writes' /\ \A n \in Nat : n <= writes => n <= writes'
    BY <1>5, <2>1
  <2>4. DiffsExplained' /\ ValidatedIsInsertable'
    BY <2>1 DEF FormInv, DiffsExplained, ValidatedIsInsertable
  <2>5. CASE row = NoRow
    <3>1. row' # NoRow /\ row' # Gone
      BY <1>5, <1>7, <1>9, <2>1, <2>5, RealRow
    <3>2. ASSUME NEW c \in Columns
          PROVE  /\ lastTyped'[c].value =
                      (IF c \in DOMAIN p.typed THEN Typed(p.typed[c]) ELSE new[c])
                 /\ lastTyped'[c].nr = writes'
      BY <2>1, <2>5
    <3>3. EditsAccounted'
      <4>1. ASSUME NEW c \in Columns PROVE row'[c] = lastTyped'[c].value
        <5>1. c \in DOMAIN p.typed => new[c] = Typed(p.typed[c])
          BY <1>8, <1>9 DEF Carries
        <5> QED  BY <2>1, <2>5, <3>2, <5>1
      <4> QED  BY <2>2, <4>1 DEF EditsAccounted
    <3>4. RowOK'
      <4>1. /\ row' = [c \in Columns' |-> row'[c]] /\ \A c \in Columns' : row'[c] # ""
            /\ Fits(resource', row')
        BY <1>9, <2>1, <2>2, <2>5
      <4>2. lastTyped' = [c \in Columns' |-> lastTyped'[c]]
        BY <2>1, <2>2, <2>5
      <4>3. writes' <= writes'
        BY <2>3
      <4>4. \A c \in Columns' : lastTyped'[c].nr \in Nat /\ lastTyped'[c].nr <= writes'
        BY <2>2, <2>3, <3>2, <4>3
      <4> QED  BY <1>5, <1>6, <2>1, <2>3, <4>1, <4>2, <4>4 DEF RowOK
    <3>5. MovesOn
      BY <1>5, <2>1, <2>3, <2>5 DEF MovesOn
    <3>6. FormsIn'
      BY <1>6, <2>1, <2>5, <3>5, EveryoneKept DEF Leave, Show
    <3> QED  BY <2>4, <3>3, <3>4, <3>6 DEF FormInv
  <2>6. CASE row # NoRow
    <3>1. UNCHANGED <<row, lastTyped, resource, stale>>
      BY <2>1, <2>6
    <3>2. EditsAccounted'
      BY <2>2, <3>1 DEF FormInv, EditsAccounted
    <3>3. RowOK'
      <4>1. Visible' <=> Visible
        BY <3>1 DEF Visible
      <4>2. \A c \in Columns' : lastTyped'[c].nr \in Nat /\ lastTyped'[c].nr <= writes'
        BY <1>7, <2>2, <2>3, <3>1
      <4>3. RowOK
        BY DEF FormInv
      <4> QED  BY <2>2, <2>3, <3>1, <4>1, <4>2, <4>3 DEF RowOK
    <3>4. Grown
      BY <3>1 DEF Grown, Stands
    <3>5. MovesOn
      BY <1>5, <1>6, <2>3, <2>6, <3>1, <3>4 DEF MovesOn
    <3>6. Visible' => Visible /\ row' = row
      BY <3>1 DEF Visible
    <3>7. FormsIn'
      BY <1>6, <2>1, <3>5, <3>6, EveryoneKept DEF Leave, Show
    <3> QED  BY <2>4, <3>2, <3>3, <3>7 DEF FormInv
  <2> QED  BY <2>5, <2>6
<1> QED  BY <1>11, <1>12

LEMMA RemoveInv == ASSUME FormInv, Remove PROVE FormInv'
<1>1. resource # NoResource /\ Visible /\ row \notin {NoRow, Gone}
  BY DEF Remove, Visible
<1>2. /\ resource \in Resources /\ writes \in Nat /\ Columns = DOMAIN Schema[resource]
      /\ "id" \in Columns
      /\ lastTyped = [c \in Columns |-> lastTyped[c]]
      /\ \A c \in Columns : lastTyped[c].nr \in Nat /\ lastTyped[c].nr <= writes
      /\ row = [c \in Columns |-> row[c]] /\ \A c \in Columns : row[c] # ""
  BY <1>1, TheRow
<1>3. /\ UNCHANGED <<resource, form, post, writes, stale, misdiffed, refusals>>
      /\ row' = IF "deletedAt" \in Columns THEN [row EXCEPT !["deletedAt"] = "later30"] ELSE Gone
      /\ lastTyped' = IF "deletedAt" \in Columns
                        THEN [lastTyped EXCEPT !["deletedAt"] = [value |-> "later30", nr |-> writes]]
                        ELSE lastTyped
  BY DEF Remove
<1>4. Columns' = Columns
  BY <1>3 DEF Columns
<1>5. DiffsExplained' /\ ValidatedIsInsertable'
  BY <1>3 DEF FormInv, DiffsExplained, ValidatedIsInsertable
<1>6. "deletedAt" \notin PostsFieldset
  BY DEF PostsFieldset
<1>6a. writes <= writes
  <2>1. writes \in Nat
    BY <1>2
  <2> QED  BY <2>1
<1>7. CASE "deletedAt" \in Columns
  <2>1. row' = [c \in Columns |-> IF c = "deletedAt" THEN "later30" ELSE row[c]]
    BY <1>2, <1>3, <1>7
  <2>2. lastTyped' = [c \in Columns |-> IF c = "deletedAt" THEN [value |-> "later30", nr |-> writes]
                                                           ELSE lastTyped[c]]
    BY <1>2, <1>3, <1>7
  <2>3. /\ row' # NoRow /\ row' # Gone
    <3>1. PICK r : r = row'
      OBVIOUS
    <3>2. r = [c \in DOMAIN Schema[resource] |-> r[c]]
      BY <1>2, <2>1, <3>1
    <3> QED  BY <1>2, <3>1, <3>2, RealRow
  <2>4. ~Visible'
    <3>1. row'["deletedAt"] = "later30" /\ "deletedAt" \in DOMAIN row'
      BY <1>7, <2>1
    <3> QED  BY <3>1 DEF Visible, Null
  <2>5. \A c \in Columns \ {"deletedAt"} : row'[c] = row[c] /\ lastTyped'[c] = lastTyped[c]
    BY <2>1, <2>2
  <2>6. row'["deletedAt"] = "later30" /\ lastTyped'["deletedAt"].value = "later30"
        /\ lastTyped'["deletedAt"].nr = writes
    BY <1>7, <2>1, <2>2
  <2>7. EditsAccounted'
    <3>1. ASSUME NEW c \in Columns, c # "deletedAt" PROVE row[c] = lastTyped[c].value \/ c \in stale
      BY <1>1 DEF FormInv, EditsAccounted
    <3> QED  BY <1>3, <1>4, <2>5, <2>6, <3>1 DEF EditsAccounted
  <2>8. RowOK'
    <3>1. row' = [c \in Columns' |-> row'[c]] /\ lastTyped' = [c \in Columns' |-> lastTyped'[c]]
      BY <1>4, <2>1, <2>2
    <3>2. \A c \in Columns' : row'[c] # ""
      BY <1>2, <1>4, <2>1
    <3>3. writes <= writes
      BY <1>6a
    <3>4. \A c \in Columns' : lastTyped'[c].nr \in Nat /\ lastTyped'[c].nr <= writes'
      BY <1>2, <1>3, <1>4, <2>5, <2>6, <3>3
    <3> QED  BY <1>1, <1>2, <1>3, <2>4, <3>1, <3>2, <3>4 DEF RowOK
  <2>9. Grown
    BY <1>3, <1>6, <2>5 DEF Grown, Stands
  <2>10. MovesOn
    <3>1. writes <= writes
      BY <1>6a
    <3> QED  BY <1>1, <1>2, <1>3, <2>3, <2>9, <3>1 DEF MovesOn
  <2>11. FormsIn'
    BY <1>1, <1>3, <2>4, <2>10, EveryoneKept
  <2> QED  BY <1>5, <2>7, <2>8, <2>11 DEF FormInv
<1>8. CASE "deletedAt" \notin Columns
  <2>1. row' = Gone /\ lastTyped' = lastTyped
    BY <1>3, <1>8
  <2>2. Gone # NoRow
    <3>1. Gone.state = "gone" /\ NoRow.state = "none"
      BY DEF Gone, NoRow
    <3> QED  BY <3>1
  <2>3. ~Visible'
    BY <2>1 DEF Visible
  <2>4. EditsAccounted'
    BY <2>1 DEF EditsAccounted
  <2>5. RowOK'
    BY <1>1, <1>2, <1>3, <1>4, <2>1 DEF RowOK
  <2>6. Grown
    BY <1>3, <2>1 DEF Grown, Stands
  <2>7. MovesOn
    <3>1. writes <= writes
      BY <1>6a
    <3> QED  BY <1>1, <1>2, <1>3, <2>1, <2>2, <2>6, <3>1 DEF MovesOn
  <2>8. FormsIn'
    BY <1>1, <1>3, <2>3, <2>7, EveryoneKept
  <2> QED  BY <1>5, <2>4, <2>5, <2>8 DEF FormInv
<1> QED  BY <1>7, <1>8

LEMMA PickInv == ASSUME FormInv, NEW t \in Resources, Pick(t) PROVE FormInv'
<1>1. PICK r \in {NoRow, Inserted(t, Samples(t))} :
        /\ row' = r
        /\ lastTyped' = [c \in DOMAIN Schema[t] |->
                           [value |-> IF r = NoRow THEN Null ELSE r[c], nr |-> 0]]
  BY DEF Pick
<1>2. /\ resource = NoResource /\ resource' = t
      /\ UNCHANGED <<form, post, writes, stale, misdiffed, refusals>>
  BY DEF Pick
<1>3. t # NoResource /\ Columns' = DOMAIN Schema[t] /\ writes \in Nat
  BY <1>2, FiveResources DEF NoResource, Columns, FormInv, RowOK
<1>4. r # NoRow => /\ r = [c \in Columns' |-> r[c]] /\ \A c \in Columns' : r[c] # ""
                   /\ Fits(t, r)
  <2>1. SUFFICES ASSUME r = Inserted(t, Samples(t))
                 PROVE  /\ r = [c \in Columns' |-> r[c]] /\ \A c \in Columns' : r[c] # ""
                        /\ Fits(t, r)
    BY <1>1
  <2>2. PICK data : data = Samples(t)
    OBVIOUS
  <2>3. ValidationErrors(t, "create", data) = {} /\ \A c \in DOMAIN data : data[c] # ""
    BY <2>2, SamplesValid
  <2>4. Filled(t, data, r)
    BY <2>1, <2>2, <2>3, InsertedFits
  <2> QED  BY <1>3, <2>4 DEF Filled
<1>5. \A c \in Columns' : /\ lastTyped'[c].value = (IF r = NoRow THEN Null ELSE r[c])
                          /\ lastTyped'[c].nr = 0
  BY <1>1, <1>3
<1>6. RowOK'
  <2>1. lastTyped' = [c \in Columns' |-> lastTyped'[c]]
    BY <1>1, <1>3
  <2>2. 0 \in Nat /\ 0 <= writes'
    BY <1>2, <1>3
  <2> QED  BY <1>1, <1>2, <1>3, <1>4, <1>5, <2>1, <2>2 DEF RowOK
<1>7. EditsAccounted'
  BY <1>1, <1>5 DEF EditsAccounted
<1>8. FormsIn'
  <2>1. form = [d \in People |-> form[d]] /\ post = [d \in People |-> post[d]]
        /\ \A d \in People : form[d] = NoForm /\ post[d] = NoPost
    BY <1>2 DEF FormInv, FormsIn, PersonOK
  <2> QED  BY <1>2, <2>1 DEF FormsIn, PersonOK, People
<1>9. DiffsExplained' /\ ValidatedIsInsertable'
  BY <1>2 DEF FormInv, DiffsExplained, ValidatedIsInsertable
<1> QED  BY <1>6, <1>7, <1>8, <1>9 DEF FormInv

LEMMA FormStutterInv == ASSUME FormInv, UNCHANGED formVars PROVE FormInv'
<1>1. Still /\ UNCHANGED <<form, post>>
  BY DEF formVars, Still
<1>2. ASSUME NEW d \in People PROVE PersonOK(d, form[d], post[d])'
  <2>1. PICK f, p : f = form[d] /\ p = post[d]
    OBVIOUS
  <2>2. PersonOK(d, f, p)'
    BY <1>1, <2>1, PersonStill DEF FormInv, FormsIn
  <2> QED  BY <1>1, <2>1, <2>2 DEF PersonOK
<1>3. FormsIn'
  BY <1>1, <1>2 DEF FormInv, FormsIn, People
<1> QED  BY <1>1, <1>3, StillKept DEF FormInv

LEMMA FormNextInv == ASSUME FormInv, FormNext PROVE FormInv'
<1>1. CASE \E t \in Resources : Pick(t)
  BY <1>1, PickInv
<1>2. CASE Remove
  BY <1>2, RemoveInv
<1>3. CASE \E e \in Editors : OpenEdit(e) \/ OpenNew(e) \/ Abandon(e)
  BY <1>3, OpenEditInv, OpenNewInv, AbandonInv
<1>4. CASE \E e \in Editors : \E c \in DOMAIN form[e].shown : \E v \in Typable(c) : TypeIn(e, c, v)
  BY <1>4, TypeInInv
<1>5. CASE \E e \in Editors : Submit(e)
  BY <1>5, SubmitInv
<1>6. CASE \E e \in Clients, mode \in {"create", "update"} : SubmitDirectly(e, mode)
  BY <1>6, SubmitDirectlyInv
<1>7. CASE \E e \in People : \/ FindBefore(e) \/ StatementFails(e)
                            \/ UpdateRow(e) \/ UpdateMissing(e) \/ InsertRow(e)
  BY <1>7, FindBeforeInv, StatementFailsInv, UpdateRowInv, UpdateMissingInv, InsertRowInv
<1> QED  BY <1>1, <1>2, <1>3, <1>4, <1>5, <1>6, <1>7 DEF FormNext, People

\* Every reachable state of the forms satisfies the inductive invariant.
THEOREM FormInvariant == FormSpec => []FormInv
<1>1. FormInit => FormInv
  BY FormInitInv
<1>2. FormInv /\ [FormNext]_formVars => FormInv'
  BY FormNextInv, FormStutterInv
<1> QED  BY <1>1, <1>2, PTL DEF FormSpec

\* What somebody typed and saw accepted is in the row, until somebody types over it or a form
\* that is older carries the older value over it.
THEOREM FormEditsAccounted == FormSpec => []EditsAccounted
<1>1. FormInv => EditsAccounted
  BY DEF FormInv
<1> QED  BY <1>1, FormInvariant, PTL

\* A form that was refused shows a message: an error of the validators is always at one of
\* the fields of the form, and the database's is above them.
THEOREM FormRejectionsExplained == FormSpec => []RejectionsExplained
<1>1. FormInv => RejectionsExplained
  <2> SUFFICES ASSUME FormInv, NEW e \in Editors, form[e] # NoForm
               PROVE  form[e].notice # "unseen"
    BY DEF RejectionsExplained
  <2>1. e \in People
    BY DEF People
  <2>2. FormOK(form[e])
    BY <2>1, OpenForm
  <2> QED  BY <2>2 DEF FormOK
<1> QED  BY <1>1, FormInvariant, PTL

\* The database refuses what the validators accepted for a foreseen reason only, and never
\* for a missing value or a uuid, whichever of the discovered tables it is, and whoever
\* posted it.
THEOREM FormValidatedIsInsertable == FormSpec => []ValidatedIsInsertable
<1>1. FormInv => ValidatedIsInsertable
  BY DEF FormInv
<1> QED  BY <1>1, FormInvariant, PTL

\* An audit diff differs from what its statement changed by what others wrote in between,
\* and by dates, only.
THEOREM FormDiffsExplained == FormSpec => []DiffsExplained
<1>1. FormInv => DiffsExplained
  BY DEF FormInv
<1> QED  BY <1>1, FormInvariant, PTL

=============================================================================
