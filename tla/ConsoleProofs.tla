---------------------------- MODULE ConsoleProofs ----------------------------
(***************************************************************************)
(* What the billing run and the subscriptions keep for every set of        *)
(* clients, requests, months and prices.                                   *)
(*                                                                         *)
(* Of the billing run: its types, and that a figure entered by hand for a  *)
(* closed month stays, where one request runs at a time.  Of the           *)
(* subscriptions: their types, that what is shown is what is billed, that  *)
(* a change of plan backdates nothing, that drafts follow edits and that   *)
(* flags keep their answer.  Last, what is checked as one console is a     *)
(* behaviour of each of its parts.                                         *)
(***************************************************************************)
EXTENDS MCConsole, CollectionsProofs, SequenceTheorems, TLAPS

-----------------------------------------------------------------------------
(* The billing run.                                                        *)

\* A request past the choice of a client has one; only a loop has a list.
Loops == {"refresh", "snapshot", "generate", "approve", "issue"}
HasClient == \A r \in Requests :
  /\ request[r].at \notin {"idle", "pick"} => Client(r) \in Clients
  /\ request[r].kind \in Loops \/ request[r].todo = {}

BillingInv == BillingRunTypeOK /\ HasClient

\* A record of figures with a figure in it exactly when it is marked as good.
FigureRow == {row \in [ok : BOOLEAN, gross : Figures \cup {NoFigure}, source : Sources] :
                row.ok <=> row.gross # NoFigure}

LEMMA FigureRows ==
  BillingRunTypeOK => figure \in [Clients -> FigureRow]
BY DEF BillingRunTypeOK, FigureRow

LEMMA QuietFacts ==
  Quiet \in RequestRecord /\ Quiet.at = "idle"
BY DEF Quiet, RequestRecord

LEMMA RecordedIsFigure ==
  ASSUME NEW row \in FigureRow, NEW gross \in Figures \cup {NoFigure}
  PROVE  Recorded(row, gross) \in FigureRow
<1>1. CASE gross # NoFigure
  <2> DEFINE src == IF gross = "nightly" THEN "warehouse" ELSE "fleet"
  <2>0. src \in Sources
    BY DEF Sources
  <2>1. Recorded(row, gross) = [ok |-> TRUE, gross |-> gross, source |-> src]
    BY <1>1 DEF Recorded
  <2> HIDE DEF src
  <2>2. Recorded(row, gross) \in [ok : BOOLEAN, gross : Figures \cup {NoFigure},
                                   source : Sources]
    BY <2>0, <2>1
  <2>3. Recorded(row, gross).ok /\ Recorded(row, gross).gross # NoFigure
    BY <1>1, <2>1
  <2> QED
    BY <2>2, <2>3 DEF FigureRow
<1>2. CASE gross = NoFigure /\ row.ok
  BY <1>2 DEF Recorded
<1>3. CASE gross = NoFigure /\ ~row.ok
  <2> DEFINE src == IF row.source = "none" THEN "unavailable" ELSE row.source
  <2>1. src \in Sources
    BY DEF FigureRow, Sources
  <2>2. Recorded(row, gross) = [row EXCEPT !.source = src]
    BY <1>3 DEF Recorded
  <2> HIDE DEF src
  <2> QED
    BY <1>3, <2>1, <2>2 DEF FigureRow
<1> QED
  BY <1>1, <1>2, <1>3 DEF FigureRow

LEMMA DraftOnIsSlot ==
  ASSUME NEW gross \in Figures \cup {NoFigure}
  PROVE  DraftOn(gross) \in SlotRecord
BY DEF DraftOn, SlotRecord

\* A request whose record changes; the others keep theirs.
LEMMA RequestMoves ==
  ASSUME BillingInv, NEW r \in Requests, NEW rec \in RequestRecord,
         request' = [request EXCEPT ![r] = rec],
         rec.at \notin {"idle", "pick"} => rec.client \in Clients,
         rec.kind \in Loops \/ rec.todo = {}
  PROVE  request' \in [Requests -> RequestRecord] /\ HasClient'
BY DEF BillingInv, BillingRunTypeOK, HasClient, Client

LEMMA NextClientMoves ==
  ASSUME BillingInv, NEW r \in Requests, NextClient(r)
  PROVE  request' \in [Requests -> RequestRecord] /\ HasClient'
<1>1. /\ request[r] \in RequestRecord
      /\ request[r].kind \in Loops \/ request[r].todo = {}
  BY DEF BillingInv, BillingRunTypeOK, HasClient
<1> DEFINE rec == IF request[r].todo = {} THEN Quiet
                  ELSE [Quiet EXCEPT !.kind = request[r].kind, !.at = "pick",
                          !.todo = request[r].todo, !.drafts = request[r].drafts]
<1>2. rec \in RequestRecord /\ rec.at \in {"idle", "pick"}
      /\ (rec.kind \in Loops \/ rec.todo = {})
  BY <1>1 DEF Quiet, RequestRecord
<1>3. request' = [request EXCEPT ![r] = rec]
  BY <1>1 DEF NextClient, BillingInv, BillingRunTypeOK
<1> HIDE DEF rec
<1> QED
  BY <1>2, <1>3, RequestMoves

\* Where a request goes with a figure it has read.
LEMMA HasReadMoves ==
  ASSUME BillingInv, NEW r \in Requests, NEW gross \in Figures \cup {NoFigure},
         HasRead(r, gross), Client(r) \in Clients
  PROVE  request' \in [Requests -> RequestRecord] /\ HasClient'
<1>0. /\ request \in [Requests -> RequestRecord] /\ request[r] \in RequestRecord
      /\ request[r].kind \in Loops \/ request[r].todo = {}
  BY DEF BillingInv, BillingRunTypeOK, HasClient
<1>1. CASE request[r].forDraft
  <2> DEFINE rec == [request[r] EXCEPT !.at = "commit", !.read = gross]
  <2>1. request' = [request EXCEPT ![r] = rec]
    BY <1>0, <1>1 DEF HasRead
  <2>2. rec \in RequestRecord /\ rec.at = "commit" /\ rec.client = Client(r)
        /\ (rec.kind \in Loops \/ rec.todo = {})
    BY <1>0 DEF RequestRecord, Client
  <2> HIDE DEF rec
  <2> QED
    BY <2>1, <2>2, RequestMoves
<1>2. CASE ~request[r].forDraft
  <2> DEFINE again == request[r].kind = "refresh" /\ Client(r) \in request[r].drafts
             rec == [request[r] EXCEPT !.at = "resolve", !.held = NoFigure]
  <2>1. CASE again
    <3>1. request' = [request EXCEPT ![r] = rec]
      BY <1>0, <1>2, <2>1 DEF HasRead
    <3>2. rec \in RequestRecord /\ rec.at = "resolve" /\ rec.client = Client(r)
          /\ (rec.kind \in Loops \/ rec.todo = {})
      BY <1>0 DEF RequestRecord, Client
    <3> HIDE DEF rec
    <3> QED
      BY <3>1, <3>2, RequestMoves
  <2>2. CASE ~again
    BY <1>2, <2>2, NextClientMoves DEF HasRead
  <2> QED
    BY <2>1, <2>2
<1> QED
  BY <1>1, <1>2

\* A request that goes to another of its places, with its client.
StepPlaces == {"cached", "fetch", "record", "resolve", "commit"}

LEMMA StaysWithClient ==
  ASSUME BillingInv, NEW r \in Requests, NEW place \in StepPlaces,
         NEW held \in Figures \cup {NoFigure}, NEW read \in Figures \cup {NoFigure},
         NEW forDraft \in BOOLEAN, Client(r) \in Clients,
         request' = [request EXCEPT ![r] =
           [request[r] EXCEPT !.at = place, !.held = held, !.read = read,
                              !.forDraft = forDraft]]
  PROVE  request' \in [Requests -> RequestRecord] /\ HasClient'
<1> DEFINE rec == [request[r] EXCEPT !.at = place, !.held = held, !.read = read,
                                     !.forDraft = forDraft]
<1>1. /\ request[r] \in RequestRecord
      /\ request[r].kind \in Loops \/ request[r].todo = {}
  BY DEF BillingInv, BillingRunTypeOK, HasClient
<1>2. rec \in RequestRecord /\ rec.at = place /\ rec.client = Client(r)
      /\ (rec.kind \in Loops \/ rec.todo = {})
  BY <1>1 DEF RequestRecord, Client, StepPlaces
<1> HIDE DEF rec
<1> QED
  BY <1>2, RequestMoves DEF StepPlaces, rec

\* What a step of one request leaves of the rest.
Untouched == UNCHANGED <<monthClosed, shopUp, nightsFull, figure, slot, page, typed, snags>>

LEMMA RequestOnly ==
  ASSUME BillingInv, Untouched, request' \in [Requests -> RequestRecord], HasClient'
  PROVE  BillingInv'
BY DEF BillingInv, BillingRunTypeOK, Untouched

LEMMA BeginKeeps ==
  ASSUME BillingInv, NEW r \in Requests,
         NEW kind \in Loops,
         NEW list \in SUBSET Clients, Begin(r, kind, list)
  PROVE  BillingInv'
<1> DEFINE rec == [Quiet EXCEPT !.kind = kind, !.at = "pick", !.todo = list,
                     !.drafts = {c \in Clients : slot[c].status = "draft"}]
<1>1. request' = [request EXCEPT ![r] = rec] /\ Untouched
  BY DEF Begin, OnlyRequest, Untouched
<1>2. rec \in RequestRecord /\ rec.at = "pick" /\ rec.kind = kind
  BY DEF Quiet, RequestRecord, Loops
<1> HIDE DEF rec
<1> QED
  BY <1>1, <1>2, RequestMoves, RequestOnly

\* The buttons of the billing page.
LEMMA ButtonsKeep ==
  ASSUME BillingInv, NEW d \in BillingDesks,
         BeginRefresh(d) \/ BeginGenerate(d) \/ BeginApprove(d) \/ BeginIssueAll(d)
  PROVE  BillingInv'
<1>0. d \in Requests
  BY DEF Requests
<1>1. CASE BeginRefresh(d)
  BY <1>0, <1>1, BeginKeeps DEF BeginRefresh, Loops
<1>2. CASE BeginGenerate(d)
  <2> DEFINE list == {c \in Clients : slot[c].status = "none"}
  <2>1. list \in SUBSET Clients /\ Begin(d, "generate", list)
    BY <1>2 DEF BeginGenerate
  <2> HIDE DEF list
  <2> QED
    BY <1>0, <2>1, BeginKeeps DEF Loops
<1>3. CASE BeginApprove(d)
  <2> DEFINE list == {c \in Clients : Awaiting(slot[c])}
  <2>1. list \in SUBSET Clients /\ Begin(d, "approve", list)
    BY <1>3 DEF BeginApprove
  <2> HIDE DEF list
  <2> QED
    BY <1>0, <2>1, BeginKeeps DEF Loops
<1>4. CASE BeginIssueAll(d)
  <2> DEFINE list == {c \in Clients : Cleared(slot[c])}
  <2>1. list \in SUBSET Clients /\ Begin(d, "issue", list)
    BY <1>4 DEF BeginIssueAll
  <2> HIDE DEF list
  <2> QED
    BY <1>0, <2>1, BeginKeeps DEF Loops
<1> QED
  BY <1>1, <1>2, <1>3, <1>4

\* The forms for one client, and a request that dies.
LEMMA FormsKeep ==
  ASSUME BillingInv, NEW d \in BillingDesks, NEW c \in Clients,
         BeginManual(d, c) \/ BeginRebuild(d, c)
  PROVE  BillingInv'
<1>0. d \in Requests
  BY DEF Requests
<1>1. CASE BeginManual(d, c)
  <2> DEFINE rec == [Quiet EXCEPT !.kind = "manual", !.at = "enter", !.client = c]
  <2>1. request' = [request EXCEPT ![d] = rec] /\ Untouched
    BY <1>1 DEF BeginManual, OnlyRequest, Untouched
  <2>2. rec \in RequestRecord /\ rec.client = c /\ rec.todo = {}
    BY DEF Quiet, RequestRecord
  <2> HIDE DEF rec
  <2> QED
    BY <1>0, <2>1, <2>2, RequestMoves, RequestOnly
<1>2. CASE BeginRebuild(d, c)
  <2> DEFINE rec == [Quiet EXCEPT !.kind = "rebuild", !.at = "resolve", !.client = c]
  <2>1. request' = [request EXCEPT ![d] = rec] /\ Untouched
    BY <1>2 DEF BeginRebuild, OnlyRequest, Untouched
  <2>2. rec \in RequestRecord /\ rec.client = c /\ rec.at = "resolve" /\ rec.todo = {}
    BY DEF Quiet, RequestRecord
  <2> HIDE DEF rec
  <2> QED
    BY <1>0, <2>1, <2>2, RequestMoves, RequestOnly
<1> QED
  BY <1>1, <1>2

LEMMA RequestFacts ==
  ASSUME BillingInv, NEW r \in Requests
  PROVE  /\ request \in [Requests -> RequestRecord] /\ request[r] \in RequestRecord
         /\ request[r].kind \in Loops \/ request[r].todo = {}
         /\ request[r].at \notin {"idle", "pick"} => Client(r) \in Clients
         /\ Client(r) \in Clients => figure[Client(r)] \in FigureRow
BY FigureRows DEF BillingInv, BillingRunTypeOK, HasClient

LEMMA PickMoves ==
  ASSUME BillingInv, NEW r \in Requests, Pick(r)
  PROVE  \E rec \in RequestRecord :
           /\ request' = [request EXCEPT ![r] = rec]
           /\ rec.client \in Clients /\ rec.kind \in Loops
           /\ rec.at \in {"cached", "resolve", "approve", "issue"}
<1>0. /\ request[r] \in RequestRecord
      /\ request[r].kind \in Loops \/ request[r].todo = {}
  BY RequestFacts
<1>1. PICK c \in request[r].todo : request' = [request EXCEPT ![r] =
         [request[r] EXCEPT !.todo = request[r].todo \ {c}, !.client = c,
                   !.at = CASE request[r].kind \in {"refresh", "snapshot"} -> "cached"
                            [] request[r].kind = "generate" -> "resolve"
                            [] OTHER -> request[r].kind]]
  BY <1>0 DEF Pick
<1>2. c \in Clients /\ request[r].todo \ {c} \in SUBSET Clients
      /\ request[r].kind \in Loops
  BY <1>0, <1>1 DEF RequestRecord
<1> DEFINE place == CASE request[r].kind \in {"refresh", "snapshot"} -> "cached"
                      [] request[r].kind = "generate" -> "resolve"
                      [] OTHER -> request[r].kind
           rec == [request[r] EXCEPT !.todo = request[r].todo \ {c}, !.client = c,
                                     !.at = place]
<1>3. place \in {"cached", "resolve", "approve", "issue"}
  BY <1>2 DEF Loops
<1>4. rec \in RequestRecord /\ rec.client = c /\ rec.kind \in Loops /\ rec.at = place
  <2> HIDE DEF place
  <2> QED
    BY <1>0, <1>2, <1>3 DEF RequestRecord
<1>5. request' = [request EXCEPT ![r] = rec]
  BY <1>1
<1> HIDE DEF rec, place
<1> QED
  BY <1>2, <1>3, <1>4, <1>5

LEMMA PickKeeps ==
  ASSUME BillingInv, NEW r \in Requests, Pick(r)
  PROVE  BillingInv'
<1>1. request' \in [Requests -> RequestRecord] /\ HasClient'
  BY PickMoves, RequestMoves
<1>2. Untouched
  BY DEF Pick, OnlyRequest, Untouched
<1> QED
  BY <1>1, <1>2, RequestOnly

LEMMA ReadsKeep ==
  ASSUME BillingInv, NEW r \in Requests,
         Resolve(r) \/ CachedFigure(r) \/ FetchSales(r) \/ FetchFails(r)
  PROVE  BillingInv'
<1>0. /\ request \in [Requests -> RequestRecord] /\ request[r] \in RequestRecord
      /\ Client(r) \in Clients /\ figure[Client(r)] \in FigureRow
  BY RequestFacts DEF Resolve, CachedFigure, FetchSales, FetchFails, Is
<1>a. Untouched
  BY DEF Resolve, CachedFigure, FetchSales, FetchFails, OnlyRequest, Untouched
<1> SUFFICES request' \in [Requests -> RequestRecord] /\ HasClient'
  BY <1>a, RequestOnly
<1> DEFINE Stays(place, held, read, forDraft) ==
             request' = [request EXCEPT ![r] =
               [request[r] EXCEPT !.at = place, !.held = held, !.read = read,
                                  !.forDraft = forDraft]]
<1>b. ASSUME NEW place \in StepPlaces, NEW held \in Figures \cup {NoFigure},
             NEW read \in Figures \cup {NoFigure}, NEW forDraft \in BOOLEAN,
             Stays(place, held, read, forDraft)
      PROVE  request' \in [Requests -> RequestRecord] /\ HasClient'
  BY <1>0, <1>b, StaysWithClient
<1>c. /\ request[r].held \in Figures \cup {NoFigure}
      /\ request[r].read \in Figures \cup {NoFigure}
      /\ request[r].forDraft \in BOOLEAN
  BY <1>0 DEF RequestRecord
<1>1. CASE Resolve(r)
  <2>1. PICK place \in StepPlaces : Stays(place, request[r].held, NoFigure, TRUE)
    <3>1. CASE monthClosed
      <4>1. Stays("cached", request[r].held, NoFigure, TRUE)
        BY <1>0, <1>1, <3>1 DEF Resolve, RequestRecord
      <4> QED
        BY <4>1 DEF StepPlaces
    <3>2. CASE ~monthClosed
      <4>1. Stays("commit", request[r].held, NoFigure, TRUE)
        BY <1>0, <1>1, <3>2 DEF Resolve, RequestRecord
      <4> QED
        BY <4>1 DEF StepPlaces
    <3> QED
      BY <3>1, <3>2
  <2> HIDE DEF Stays
  <2> QED
    BY <1>b, <1>c, <2>1
<1>2. CASE CachedFigure(r)
  <2> DEFINE row == figure[Client(r)]
             usable == monthClosed /\ row.ok
             held == IF usable THEN row.gross ELSE NoFigure
  <2>0. row.gross \in Figures \cup {NoFigure}
    BY <1>0 DEF FigureRow
  <2>1. CASE usable /\ row.source = "manual"
    <3>1. HasRead(r, row.gross)
      BY <1>2, <2>1 DEF CachedFigure
    <3> HIDE DEF row
    <3> QED
      BY <1>0, <2>0, <3>1, HasReadMoves
  <2>2. CASE ~(usable /\ row.source = "manual")
    <3>1. request' = [request EXCEPT ![r].at = "fetch", ![r].held = held]
      BY <1>2, <2>2 DEF CachedFigure
    <3>2. held \in Figures \cup {NoFigure}
      BY <2>0
    <3> HIDE DEF held
    <3>3. Stays("fetch", held, request[r].read, request[r].forDraft)
      BY <1>0, <3>1 DEF RequestRecord
    <3> HIDE DEF Stays
    <3> QED
      BY <1>b, <1>c, <3>2, <3>3 DEF StepPlaces
  <2> QED
    BY <2>1, <2>2
<1>3. CASE FetchSales(r)
  <2> DEFINE read == IF monthClosed THEN "whole" ELSE "partial"
  <2>1. request' = [request EXCEPT ![r].at = "record", ![r].read = read]
    BY <1>3 DEF FetchSales
  <2>2. read \in Figures \cup {NoFigure}
    BY DEF Figures
  <2> HIDE DEF read
  <2>3. Stays("record", request[r].held, read, request[r].forDraft)
    BY <1>0, <2>1 DEF RequestRecord
  <2> HIDE DEF Stays
  <2> QED
    BY <1>b, <1>c, <2>2, <2>3 DEF StepPlaces
<1>4. CASE FetchFails(r)
  <2>1. CASE request[r].held # NoFigure
    BY <1>0, <1>4, <1>c, <2>1, HasReadMoves DEF FetchFails
  <2>2. CASE request[r].held = NoFigure
    <3> DEFINE read == IF Client(r) \in nightsFull THEN "nightly" ELSE NoFigure
    <3>1. request' = [request EXCEPT ![r].at = "record", ![r].read = read]
      BY <1>4, <2>2 DEF FetchFails
    <3>2. read \in Figures \cup {NoFigure}
      BY DEF Figures
    <3> HIDE DEF read
    <3>3. Stays("record", request[r].held, read, request[r].forDraft)
      BY <1>0, <3>1 DEF RequestRecord
    <3> HIDE DEF Stays
    <3> QED
      BY <1>b, <1>c, <3>2, <3>3 DEF StepPlaces
  <2> QED
    BY <2>1, <2>2
<1> QED
  BY <1>1, <1>2, <1>3, <1>4

\* The steps that store a figure.
LEMMA FigureKeeps ==
  ASSUME BillingInv, NEW c \in Clients, NEW row \in FigureRow,
         figure' = [figure EXCEPT ![c] = row], typed' \in SUBSET Clients,
         UNCHANGED <<monthClosed, shopUp, nightsFull, slot, page, snags>>,
         request' \in [Requests -> RequestRecord], HasClient'
  PROVE  BillingInv'
<1>1. figure' \in [Clients -> FigureRow]
  BY FigureRows DEF BillingInv
<1> QED
  BY <1>1 DEF BillingInv, BillingRunTypeOK, FigureRow

LEMMA RecordsKeep ==
  ASSUME BillingInv, NEW r \in Requests, RecordFigure(r) \/ RecordLost(r)
  PROVE  BillingInv'
<1>0. /\ request[r] \in RequestRecord
      /\ Client(r) \in Clients /\ figure[Client(r)] \in FigureRow
  BY RequestFacts DEF RecordFigure, RecordLost, Is
<1>1. request[r].read \in Figures \cup {NoFigure}
  BY <1>0 DEF RequestRecord
<1>2. request' \in [Requests -> RequestRecord] /\ HasClient'
  BY <1>0, <1>1, HasReadMoves DEF RecordFigure, RecordLost
<1>3. CASE RecordFigure(r)
  <2> DEFINE row == Recorded(figure[Client(r)], request[r].read)
  <2>1. row \in FigureRow
    BY <1>0, <1>1, RecordedIsFigure
  <2>2. figure' = [figure EXCEPT ![Client(r)] = row]
    BY <1>3 DEF RecordFigure
  <2>3. typed' \in SUBSET Clients
        /\ UNCHANGED <<monthClosed, shopUp, nightsFull, slot, page, snags>>
    BY <1>3 DEF RecordFigure, BillingInv, BillingRunTypeOK
  <2> HIDE DEF row
  <2> QED
    BY <1>0, <1>2, <2>1, <2>2, <2>3, FigureKeeps
<1>4. CASE RecordLost(r)
  <2>1. snags' \in 0 .. MaxSnags
    BY <1>4, SnagsAssumption DEF RecordLost, BillingInv, BillingRunTypeOK
  <2> QED
    BY <1>2, <1>4, <2>1 DEF RecordLost, BillingInv, BillingRunTypeOK
<1> QED
  BY <1>3, <1>4

LEMMA EnterFigureKeeps ==
  ASSUME BillingInv, NEW d \in BillingDesks, EnterFigure(d)
  PROVE  BillingInv'
<1>0. /\ d \in Requests /\ request[d] \in RequestRecord /\ Client(d) \in Clients
      /\ request[d].kind \in Loops \/ request[d].todo = {}
  BY RequestFacts DEF EnterFigure, Is, Requests
<1> DEFINE row == [ok |-> TRUE, gross |-> "entered", source |-> "manual"]
<1>1. row \in FigureRow
  <2>1. row \in [ok : BOOLEAN, gross : Figures \cup {NoFigure}, source : Sources]
    BY DEF Figures, Sources
  <2>2. row.ok /\ row.gross # NoFigure
    BY DEF NoFigure
  <2> HIDE DEF row
  <2> QED
    BY <2>1, <2>2 DEF FigureRow
<1>2. figure' = [figure EXCEPT ![Client(d)] = row]
  BY DEF EnterFigure
<1>3. typed' \in SUBSET Clients
      /\ UNCHANGED <<monthClosed, shopUp, nightsFull, slot, page, snags>>
  BY <1>0 DEF EnterFigure, BillingInv, BillingRunTypeOK
<1>4. request' = [request EXCEPT ![d] =
           [request[d] EXCEPT !.at = "resolve", !.held = request[d].held,
                              !.read = request[d].read, !.forDraft = request[d].forDraft]]
  BY <1>0 DEF EnterFigure, Goes, RequestRecord
<1>5. request' \in [Requests -> RequestRecord] /\ HasClient'
  <2>1. /\ request[d].held \in Figures \cup {NoFigure}
        /\ request[d].read \in Figures \cup {NoFigure}
        /\ request[d].forDraft \in BOOLEAN
    BY <1>0 DEF RequestRecord
  <2> QED
    BY <1>0, <1>4, <2>1, StaysWithClient DEF StepPlaces
<1> HIDE DEF row
<1> QED
  BY <1>0, <1>1, <1>2, <1>3, <1>5, FigureKeeps

\* The steps that write an invoice.
LEMMA SlotKeeps ==
  ASSUME BillingInv, NEW c \in Clients, NEW rec \in SlotRecord,
         slot' \in {slot, [slot EXCEPT ![c] = rec]},
         UNCHANGED <<monthClosed, shopUp, nightsFull, figure, page, typed, snags>>,
         request' \in [Requests -> RequestRecord], HasClient'
  PROVE  BillingInv'
BY DEF BillingInv, BillingRunTypeOK

LEMMA LoopsKeep ==
  ASSUME BillingInv, NEW r \in Requests, CommitDraft(r) \/ ApproveNext(r) \/ IssueNext(r)
  PROVE  BillingInv'
<1>0. /\ request[r] \in RequestRecord /\ Client(r) \in Clients
      /\ slot[Client(r)] \in SlotRecord
  BY RequestFacts DEF CommitDraft, ApproveNext, IssueNext, Is, BillingInv, BillingRunTypeOK
<1>1. request' \in [Requests -> RequestRecord] /\ HasClient'
  BY NextClientMoves DEF CommitDraft, ApproveNext, IssueNext
<1>2. UNCHANGED <<monthClosed, shopUp, nightsFull, figure, page, typed, snags>>
  BY DEF CommitDraft, ApproveNext, IssueNext
<1>3. CASE CommitDraft(r)
  <2>1. DraftOn(request[r].read) \in SlotRecord
    BY <1>0, DraftOnIsSlot DEF RequestRecord
  <2>2. slot' \in {slot, [slot EXCEPT ![Client(r)] = DraftOn(request[r].read)]}
    BY <1>3 DEF CommitDraft
  <2> QED
    BY <1>0, <1>1, <1>2, <2>1, <2>2, SlotKeeps
<1>4. CASE ApproveNext(r)
  <2> DEFINE rec == [slot[Client(r)] EXCEPT !.approved = TRUE]
  <2>1. rec \in SlotRecord
    BY <1>0 DEF SlotRecord
  <2>2. slot' \in {slot, [slot EXCEPT ![Client(r)] = rec]}
    BY <1>4 DEF ApproveNext
  <2> HIDE DEF rec
  <2> QED
    BY <1>0, <1>1, <1>2, <2>1, <2>2, SlotKeeps
<1>5. CASE IssueNext(r)
  <2> DEFINE rec == [slot[Client(r)] EXCEPT !.status = "issued"]
  <2>1. rec \in SlotRecord
    BY <1>0 DEF SlotRecord
  <2>2. slot' \in {slot, [slot EXCEPT ![Client(r)] = rec]}
    BY <1>5 DEF IssueNext
  <2> HIDE DEF rec
  <2> QED
    BY <1>0, <1>1, <1>2, <2>1, <2>2, SlotKeeps
<1> QED
  BY <1>3, <1>4, <1>5

LEMMA RowActionKeeps ==
  ASSUME BillingInv, NEW d \in BillingDesks, NEW c \in Clients, RowAction(d, c)
  PROVE  BillingInv'
<1>0. slot[c] \in SlotRecord /\ NoInvoice \in SlotRecord
  BY DEF BillingInv, BillingRunTypeOK, NoInvoice, SlotRecord
<1>1. PICK rec \in SlotRecord : OneDraft(d, c, rec)
  <2>1. CASE ApproveOne(d, c)
    <3>1. [slot[c] EXCEPT !.approved = TRUE] \in SlotRecord
      BY <1>0 DEF SlotRecord
    <3> QED
      BY <2>1, <3>1 DEF ApproveOne
  <2>2. CASE UnapproveOne(d, c)
    <3>1. [slot[c] EXCEPT !.approved = FALSE] \in SlotRecord
      BY <1>0 DEF SlotRecord
    <3> QED
      BY <2>2, <3>1 DEF UnapproveOne
  <2>3. CASE IssueOne(d, c)
    <3>1. [slot[c] EXCEPT !.status = "issued"] \in SlotRecord
      BY <1>0 DEF SlotRecord
    <3> QED
      BY <2>3, <3>1 DEF IssueOne
  <2>4. CASE DeleteDraft(d, c)
    BY <1>0, <2>4 DEF DeleteDraft
  <2>5. CASE WaiveCommission(d, c)
    <3>1. [slot[c] EXCEPT !.flagged = FALSE, !.waived = TRUE] \in SlotRecord
      BY <1>0 DEF SlotRecord
    <3> QED
      BY <2>5, <3>1 DEF WaiveCommission
  <2> QED
    BY <2>1, <2>2, <2>3, <2>4, <2>5 DEF RowAction
<1>2. request' \in [Requests -> RequestRecord] /\ HasClient'
  BY <1>1 DEF OneDraft, BillingInv, BillingRunTypeOK, HasClient, Client
<1> QED
  BY <1>1, <1>2, SlotKeeps DEF OneDraft

LEMMA WorldKeeps ==
  ASSUME BillingInv,
         \/ MonthEnds
         \/ \E c \in Clients : ShopTurns(c) \/ NightsComplete(c)
         \/ \E d \in BillingDesks : LoadPage(d)
         \/ \E r \in Requests : RequestDies(r)
  PROVE  BillingInv'
<1>1. CASE MonthEnds \/ \E c \in Clients : ShopTurns(c) \/ NightsComplete(c)
  <2>1. UNCHANGED <<figure, slot, page, request, typed, snags>>
    BY <1>1 DEF MonthEnds, ShopTurns, NightsComplete
  <2>2. monthClosed' \in BOOLEAN /\ shopUp' \in SUBSET Clients /\ nightsFull' \in SUBSET Clients
    BY <1>1 DEF MonthEnds, ShopTurns, NightsComplete, BillingInv, BillingRunTypeOK
  <2> QED
    BY <2>1, <2>2 DEF BillingInv, BillingRunTypeOK, HasClient, Client
<1>2. CASE \E d \in BillingDesks : LoadPage(d)
  <2>1. page' \in [BillingDesks -> [Clients -> SlotRecord]]
    BY <1>2 DEF LoadPage, BillingInv, BillingRunTypeOK
  <2>2. UNCHANGED <<monthClosed, shopUp, nightsFull, figure, slot, request, typed, snags>>
    BY <1>2 DEF LoadPage
  <2> QED
    BY <2>1, <2>2 DEF BillingInv, BillingRunTypeOK, HasClient, Client
<1>3. CASE \E r \in Requests : RequestDies(r)
  <2> PICK r \in Requests : RequestDies(r)
    BY <1>3
  <2>1. request' = [request EXCEPT ![r] = Quiet] /\ Quiet.todo = {}
    BY DEF RequestDies, Quiet
  <2>2. request' \in [Requests -> RequestRecord] /\ HasClient'
    BY <2>1, QuietFacts, RequestMoves
  <2>3. snags' \in 0 .. MaxSnags
        /\ UNCHANGED <<monthClosed, shopUp, nightsFull, figure, slot, page, typed>>
    BY SnagsAssumption DEF RequestDies, BillingInv, BillingRunTypeOK
  <2> QED
    BY <2>2, <2>3 DEF BillingInv, BillingRunTypeOK
<1> QED
  BY <1>1, <1>2, <1>3

LEMMA BillingInitial == BillingRunInit => BillingInv
<1> SUFFICES ASSUME BillingRunInit PROVE BillingInv
  OBVIOUS
<1> USE DEF BillingRunInit
<1>1. request \in [Requests -> RequestRecord] /\ HasClient
  BY QuietFacts DEF HasClient, Quiet
<1>2. slot \in [Clients -> SlotRecord]
  BY DEF NoInvoice, SlotRecord
<1>3. page \in [BillingDesks -> [Clients -> SlotRecord]]
  BY <1>2
<1>4. figure \in [Clients -> [ok : BOOLEAN, gross : Figures \cup {NoFigure}, source : Sources]]
  BY DEF Sources
<1>5. \A c \in Clients : figure[c].ok <=> figure[c].gross # NoFigure
  <2> SUFFICES ASSUME NEW c \in Clients PROVE ~figure[c].ok /\ figure[c].gross = NoFigure
    OBVIOUS
  <2> QED
    OBVIOUS
<1>6. /\ monthClosed \in BOOLEAN /\ shopUp \subseteq Clients /\ nightsFull \subseteq Clients
      /\ typed \subseteq Clients
  OBVIOUS
<1>7. snags \in 0 .. MaxSnags
  BY SnagsAssumption
<1> QED
  <2> HIDE DEF BillingRunInit
  <2> QED
    BY <1>1, <1>2, <1>3, <1>4, <1>5, <1>6, <1>7 DEF BillingInv, BillingRunTypeOK

LEMMA BillingStep == BillingInv /\ [BillingRunNext]_billingRunVars => BillingInv'
<1> SUFFICES ASSUME BillingInv, [BillingRunNext]_billingRunVars PROVE BillingInv'
  OBVIOUS
<1>1. CASE \E r \in Requests :
       \/ Pick(r) \/ Resolve(r) \/ CachedFigure(r) \/ FetchSales(r) \/ FetchFails(r)
       \/ RecordFigure(r) \/ RecordLost(r) \/ CommitDraft(r) \/ RequestDies(r)
  BY <1>1, PickKeeps, ReadsKeep, RecordsKeep, LoopsKeep, WorldKeeps
<1>2. CASE \E d \in BillingDesks :
       \/ LoadPage(d) \/ BeginRefresh(d) \/ BeginGenerate(d) \/ BeginApprove(d)
       \/ BeginIssueAll(d) \/ EnterFigure(d) \/ ApproveNext(d) \/ IssueNext(d)
       \/ \E c \in Clients : BeginManual(d, c) \/ BeginRebuild(d, c) \/ RowAction(d, c)
  <2>1. BillingDesks \subseteq Requests
    BY DEF Requests
  <2> QED
    BY <1>2, <2>1, WorldKeeps, ButtonsKeep, EnterFigureKeeps, LoopsKeep, FormsKeep,
       RowActionKeeps
<1>3. CASE \E r \in Snapshots : BeginSnapshot(r)
  <2> PICK r \in Snapshots : BeginSnapshot(r)
    BY <1>3
  <2>1. r \in Requests /\ "snapshot" \in Loops /\ Begin(r, "snapshot", Clients)
    BY DEF BeginSnapshot, Requests, Loops
  <2> QED
    BY <2>1, BeginKeeps
<1>4. CASE MonthEnds \/ \E c \in Clients : ShopTurns(c) \/ NightsComplete(c)
  BY <1>4, WorldKeeps
<1>5. CASE UNCHANGED billingRunVars
  BY <1>5 DEF billingRunVars, BillingInv, BillingRunTypeOK, HasClient, Client
<1> QED
  BY <1>1, <1>2, <1>3, <1>4, <1>5 DEF BillingRunNext

LEMMA BillingInvariance == BillingRunSpec => []BillingInv
BY BillingInitial, BillingStep, PTL DEF BillingRunSpec

\* The billing run keeps its types.
THEOREM BillingRunTypes == BillingRunSpec => []BillingRunTypeOK
<1>1. BillingInv => BillingRunTypeOK
  BY DEF BillingInv
<1> QED
  BY <1>1, BillingInvariance, PTL

-----------------------------------------------------------------------------
(* A figure entered by hand stays.                                         *)

Entered == [ok |-> TRUE, gross |-> "entered", source |-> "manual"]

\* The month of an entered figure has ended and the table has the figure; no
\* request is between reading the table and writing another figure for it.
TypedInv ==
  /\ typed # {} => monthClosed
  /\ \A c \in typed : figure[c] = Entered
  /\ \A r \in Requests :
       request[r].at \in {"fetch", "record"} => Client(r) \notin typed
  /\ \A q, r \in Requests : request[q].at # "idle" /\ request[r].at # "idle" => q = r
Elsewhere == {"idle", "pick", "cached", "resolve", "commit", "approve", "issue", "enter"}

\* Only r moves, and no other request is under way.
LEMMA OnlyOneMoves ==
  ASSUME OneAtATime, BillingInv, TypedInv, NEW r \in Requests,
         request[r].at # "idle" \/ MayBegin(r),
         NEW rec \in RequestRecord, request' = [request EXCEPT ![r] = rec]
  PROVE  /\ \A p, q \in Requests : request'[p].at # "idle" /\ request'[q].at # "idle" => p = q
         /\ \A q \in Requests : q # r => request'[q].at = "idle"
         /\ request'[r] = rec
<1>1. \A q \in Requests : q # r => request[q].at = "idle"
  BY DEF TypedInv, MayBegin, Is
<1>2. \A q \in Requests : request'[q] = IF q = r THEN rec ELSE request[q]
  BY DEF BillingInv, BillingRunTypeOK
<1> QED
  BY <1>1, <1>2

\* A move that does not bring r between its read and its write of a figure.
LEMMA MovesElsewhere ==
  ASSUME OneAtATime, BillingInv, TypedInv, NEW r \in Requests,
         request[r].at # "idle" \/ MayBegin(r),
         NEW rec \in RequestRecord, request' = [request EXCEPT ![r] = rec],
         rec.at \in Elsewhere, typed' # {} => monthClosed',
         \A c \in typed' : figure'[c] = Entered
  PROVE  TypedInv'
BY OnlyOneMoves DEF TypedInv, Elsewhere, Client

LEMMA NextGoesElsewhere ==
  ASSUME BillingInv, NEW r \in Requests, NextClient(r)
  PROVE  \E rec \in RequestRecord :
           request' = [request EXCEPT ![r] = rec] /\ rec.at \in Elsewhere
<1>1. request[r] \in RequestRecord
  BY RequestFacts
<1> DEFINE rec == IF request[r].todo = {} THEN Quiet
                  ELSE [Quiet EXCEPT !.kind = request[r].kind, !.at = "pick",
                          !.todo = request[r].todo, !.drafts = request[r].drafts]
<1>2. rec \in RequestRecord /\ rec.at \in {"idle", "pick"}
  BY <1>1 DEF Quiet, RequestRecord
<1>3. request' = [request EXCEPT ![r] = rec]
  BY <1>1 DEF NextClient, BillingInv, BillingRunTypeOK
<1> HIDE DEF rec
<1> QED
  BY <1>2, <1>3 DEF Elsewhere

LEMMA HasReadGoesElsewhere ==
  ASSUME BillingInv, NEW r \in Requests, NEW gross \in Figures \cup {NoFigure},
         HasRead(r, gross)
  PROVE  \E rec \in RequestRecord :
           request' = [request EXCEPT ![r] = rec] /\ rec.at \in Elsewhere
<1>0. request \in [Requests -> RequestRecord] /\ request[r] \in RequestRecord
  BY RequestFacts
<1>1. CASE request[r].forDraft
  <2> DEFINE rec == [request[r] EXCEPT !.at = "commit", !.read = gross]
  <2>1. request' = [request EXCEPT ![r] = rec]
    BY <1>0, <1>1 DEF HasRead
  <2>2. rec \in RequestRecord /\ rec.at = "commit"
    BY <1>0 DEF RequestRecord
  <2> HIDE DEF rec
  <2> QED
    BY <2>1, <2>2 DEF Elsewhere
<1>2. CASE ~request[r].forDraft /\ request[r].kind = "refresh"
           /\ Client(r) \in request[r].drafts
  <2> DEFINE rec == [request[r] EXCEPT !.at = "resolve", !.held = NoFigure]
  <2>1. request' = [request EXCEPT ![r] = rec]
    BY <1>0, <1>2 DEF HasRead
  <2>2. rec \in RequestRecord /\ rec.at = "resolve"
    BY <1>0 DEF RequestRecord
  <2> HIDE DEF rec
  <2> QED
    BY <2>1, <2>2 DEF Elsewhere
<1>3. CASE NextClient(r)
  BY <1>3, NextGoesElsewhere
<1> QED
  BY <1>1, <1>2, <1>3 DEF HasRead

LEMMA TypedStep ==
  ASSUME OneAtATime
  PROVE  BillingInv /\ TypedInv /\ [BillingRunNext]_billingRunVars => TypedInv'
<1> SUFFICES ASSUME BillingInv, TypedInv, [BillingRunNext]_billingRunVars PROVE TypedInv'
  OBVIOUS
<1>0. /\ typed # {} => monthClosed
      /\ \A c \in typed : figure[c] = Entered
      /\ request \in [Requests -> RequestRecord]
      /\ BillingDesks \subseteq Requests /\ Snapshots \subseteq Requests
  BY DEF TypedInv, BillingInv, BillingRunTypeOK, Requests
\* The requests that begin, and the steps that neither read nor write a figure.
<1>1. ASSUME NEW r \in Requests, NEW kind \in Loops, NEW list \in SUBSET Clients,
             Begin(r, kind, list)
      PROVE  TypedInv'
  <2> DEFINE rec == [Quiet EXCEPT !.kind = kind, !.at = "pick", !.todo = list,
                       !.drafts = {c \in Clients : slot[c].status = "draft"}]
  <2>1. request' = [request EXCEPT ![r] = rec] /\ MayBegin(r)
        /\ UNCHANGED <<monthClosed, figure, typed>>
    BY <1>1 DEF Begin, OnlyRequest
  <2>2. rec \in RequestRecord /\ rec.at = "pick"
    BY DEF Quiet, RequestRecord, Loops
  <2> HIDE DEF rec
  <2> QED
    BY <1>0, <2>1, <2>2, MovesElsewhere DEF Elsewhere
<1>2. ASSUME NEW d \in BillingDesks, NEW c \in Clients, BeginManual(d, c) \/ BeginRebuild(d, c)
      PROVE  TypedInv'
  <2> DEFINE rec(kind, place) == [Quiet EXCEPT !.kind = kind, !.at = place, !.client = c]
  <2>1. /\ rec("manual", "enter") \in RequestRecord /\ rec("manual", "enter").at = "enter"
        /\ rec("rebuild", "resolve") \in RequestRecord
        /\ rec("rebuild", "resolve").at = "resolve"
    BY DEF Quiet, RequestRecord
  <2>2. /\ \/ request' = [request EXCEPT ![d] = rec("manual", "enter")]
           \/ request' = [request EXCEPT ![d] = rec("rebuild", "resolve")]
        /\ MayBegin(d) /\ UNCHANGED <<monthClosed, figure, typed>>
    BY <1>2 DEF BeginManual, BeginRebuild, OnlyRequest
  <2> HIDE DEF rec
  <2> QED
    BY <1>0, <2>1, <2>2, MovesElsewhere DEF Elsewhere
<1>3. ASSUME NEW r \in Requests, Pick(r)
      PROVE  TypedInv'
  <2>1. PICK rec \in RequestRecord :
          request' = [request EXCEPT ![r] = rec] /\ rec.at \in Elsewhere
    BY <1>3, PickMoves DEF Elsewhere
  <2>2. request[r].at # "idle" /\ UNCHANGED <<monthClosed, figure, typed>>
    BY <1>3 DEF Pick, Is, OnlyRequest
  <2> QED
    BY <1>0, <2>1, <2>2, MovesElsewhere
<1>4. ASSUME NEW r \in Requests, CommitDraft(r) \/ ApproveNext(r) \/ IssueNext(r)
      PROVE  TypedInv'
  <2>1. PICK rec \in RequestRecord :
          request' = [request EXCEPT ![r] = rec] /\ rec.at \in Elsewhere
    BY <1>4, NextGoesElsewhere DEF CommitDraft, ApproveNext, IssueNext
  <2>2. request[r].at # "idle" /\ UNCHANGED <<monthClosed, figure, typed>>
    BY <1>4 DEF CommitDraft, ApproveNext, IssueNext, Is
  <2> QED
    BY <1>0, <2>1, <2>2, MovesElsewhere
<1>5. ASSUME NEW r \in Requests, RequestDies(r)
      PROVE  TypedInv'
  <2>1. /\ request' = [request EXCEPT ![r] = Quiet] /\ request[r].at # "idle"
        /\ UNCHANGED <<monthClosed, figure, typed>>
    BY <1>5 DEF RequestDies, Is
  <2> QED
    BY <1>0, <2>1, QuietFacts, MovesElsewhere DEF Elsewhere
<1>6. ASSUME NEW r \in Requests, Resolve(r)
      PROVE  TypedInv'
  <2> DEFINE place == IF monthClosed THEN "cached" ELSE "commit"
             rec == [request[r] EXCEPT !.forDraft = TRUE, !.read = NoFigure, !.at = place]
  <2>1. /\ request' = [request EXCEPT ![r] = rec] /\ request[r].at # "idle"
        /\ UNCHANGED <<monthClosed, figure, typed>>
    BY <1>0, <1>6 DEF Resolve, Is, OnlyRequest
  <2>2. place \in {"cached", "commit"}
    OBVIOUS
  <2>3. rec \in RequestRecord /\ rec.at = place
    <3> HIDE DEF place
    <3> QED
      BY <1>0, <2>2 DEF RequestRecord
  <2> HIDE DEF rec, place
  <2> QED
    BY <1>0, <2>1, <2>2, <2>3, MovesElsewhere DEF Elsewhere
\* Entering the figure, and reading it from the table.
<1>7. ASSUME NEW d \in BillingDesks, EnterFigure(d)
      PROVE  TypedInv'
  <2> DEFINE rec == [request[d] EXCEPT !.at = "resolve"]
  <2>1. /\ request' = [request EXCEPT ![d] = rec] /\ request[d].at # "idle"
        /\ d \in Requests /\ request[d] \in RequestRecord /\ Client(d) \in Clients
    BY <1>0, <1>7, RequestFacts DEF EnterFigure, Goes, Is
  <2>2. rec \in RequestRecord /\ rec.at = "resolve"
    BY <2>1 DEF RequestRecord
  <2>3. /\ figure' = [figure EXCEPT ![Client(d)] = Entered] /\ monthClosed' = monthClosed
        /\ typed' = IF monthClosed THEN typed \cup {Client(d)} ELSE typed
    BY <1>7 DEF EnterFigure, Entered
  <2>4. \A c \in typed' : c \in Clients /\ figure'[c] = Entered
    BY <1>0, <2>1, <2>3 DEF BillingInv, BillingRunTypeOK
  <2> HIDE DEF rec
  <2> QED
    BY <1>0, <2>1, <2>2, <2>3, <2>4, MovesElsewhere DEF Elsewhere
<1>8. ASSUME NEW r \in Requests, CachedFigure(r)
      PROVE  TypedInv'
  <2> DEFINE row == figure[Client(r)]
             manual == monthClosed /\ row.ok /\ row.source = "manual"
  <2>0. /\ request[r].at # "idle" /\ UNCHANGED <<monthClosed, figure, typed>>
        /\ Client(r) \in Clients /\ request[r] \in RequestRecord /\ row \in FigureRow
    BY <1>8, RequestFacts DEF CachedFigure, Is, OnlyRequest
  <2>1. CASE manual
    <3>1. HasRead(r, row.gross) /\ row.gross \in Figures \cup {NoFigure}
      BY <1>8, <2>0, <2>1 DEF CachedFigure, FigureRow
    <3>2. PICK rec \in RequestRecord :
            request' = [request EXCEPT ![r] = rec] /\ rec.at \in Elsewhere
      <4> HIDE DEF row
      <4> QED
        BY <3>1, HasReadGoesElsewhere
    <3> QED
      BY <1>0, <2>0, <3>2, MovesElsewhere
  <2>2. CASE ~manual
    <3>1. Client(r) \notin typed
      BY <1>0, <2>2 DEF Entered
    <3> DEFINE held == IF monthClosed /\ row.ok THEN row.gross ELSE NoFigure
               rec == [request[r] EXCEPT !.at = "fetch", !.held = held]
    <3>2. request' = [request EXCEPT ![r].at = "fetch", ![r].held = held]
      BY <1>8, <2>2 DEF CachedFigure
    <3>3. held \in Figures \cup {NoFigure}
      BY <2>0 DEF FigureRow
    <3> HIDE DEF held
    <3>4. request' = [request EXCEPT ![r] = rec] /\ rec \in RequestRecord
          /\ rec.client = Client(r)
      BY <1>0, <2>0, <3>2, <3>3 DEF RequestRecord, Client
    <3> HIDE DEF rec
    <3> QED
      BY <2>0, <3>1, <3>4, OnlyOneMoves DEF TypedInv, Client
  <2> QED
    BY <2>1, <2>2
<1>9. ASSUME NEW r \in Requests, FetchSales(r) \/ FetchFails(r)
      PROVE  TypedInv'
  <2>0. /\ request[r].at = "fetch" /\ UNCHANGED <<monthClosed, figure, typed>>
        /\ Client(r) \in Clients /\ request[r] \in RequestRecord
        /\ Client(r) \notin typed
    BY <1>9, RequestFacts DEF FetchSales, FetchFails, Is, OnlyRequest, TypedInv
  <2>1. CASE \E read \in Figures \cup {NoFigure} :
               request' = [request EXCEPT ![r].at = "record", ![r].read = read]
    <3> PICK read \in Figures \cup {NoFigure} :
               request' = [request EXCEPT ![r].at = "record", ![r].read = read]
      BY <2>1
    <3> DEFINE rec == [request[r] EXCEPT !.at = "record", !.read = read]
    <3>1. request' = [request EXCEPT ![r] = rec] /\ rec \in RequestRecord
          /\ rec.client = Client(r)
      BY <1>0, <2>0 DEF RequestRecord, Client
    <3> HIDE DEF rec
    <3>2. request[r].at # "idle" /\ typed' = typed /\ figure' = figure
          /\ monthClosed' = monthClosed
      BY <2>0
    <3>3. request'[r] = rec
          /\ \A q \in Requests : q # r => request'[q].at = "idle"
      BY <3>1, <3>2, OnlyOneMoves
    <3>4. \A q \in Requests : request'[q].at \in {"fetch", "record"} => Client(q)' \notin typed
      BY <2>0, <3>1, <3>3 DEF Client
    <3>5. \A p, q \in Requests : request'[p].at # "idle" /\ request'[q].at # "idle" => p = q
      BY <3>3
    <3> QED
      BY <3>2, <3>4, <3>5 DEF TypedInv
  <2>2. CASE FetchFails(r) /\ request[r].held # NoFigure
    <3>1. HasRead(r, request[r].held) /\ request[r].held \in Figures \cup {NoFigure}
      BY <2>0, <2>2 DEF FetchFails, RequestRecord
    <3>2. PICK rec \in RequestRecord :
            request' = [request EXCEPT ![r] = rec] /\ rec.at \in Elsewhere
      BY <3>1, HasReadGoesElsewhere
    <3> QED
      BY <1>0, <2>0, <3>2, MovesElsewhere
  <2>3. CASE FetchFails(r) /\ request[r].held = NoFigure
    BY <2>1, <2>3 DEF FetchFails, Figures
  <2>4. CASE FetchSales(r)
    BY <2>1, <2>4 DEF FetchSales, Figures
  <2> QED
    BY <1>9, <2>2, <2>3, <2>4
<1>10. ASSUME NEW r \in Requests, RecordFigure(r) \/ RecordLost(r)
       PROVE  TypedInv'
  <2>0. /\ request[r].at = "record" /\ UNCHANGED <<monthClosed, typed>>
        /\ request[r] \in RequestRecord /\ Client(r) \notin typed
        /\ HasRead(r, request[r].read) /\ request[r].read \in Figures \cup {NoFigure}
    BY <1>10, RequestFacts DEF RecordFigure, RecordLost, Is, TypedInv, RequestRecord
  <2>1. PICK rec \in RequestRecord :
          request' = [request EXCEPT ![r] = rec] /\ rec.at \in Elsewhere
    BY <2>0, HasReadGoesElsewhere
  <2>2. \A c \in typed : figure'[c] = Entered
    <3>1. \A c \in typed : c \in Clients /\ c # Client(r) /\ figure[c] = Entered
      BY <1>0, <2>0 DEF BillingInv, BillingRunTypeOK
    <3> DEFINE row == Recorded(figure[Client(r)], request[r].read)
    <3>2. figure' \in {figure, [figure EXCEPT ![Client(r)] = row]}
      BY <1>10 DEF RecordFigure, RecordLost
    <3> HIDE DEF row
    <3> QED
      BY <3>1, <3>2 DEF BillingInv, BillingRunTypeOK
  <2> QED
    BY <1>0, <2>0, <2>1, <2>2, MovesElsewhere
\* The steps that leave requests and figures alone.
<1>11. ASSUME UNCHANGED <<figure, request, typed>>, monthClosed => monthClosed'
       PROVE  TypedInv'
  BY <1>0, <1>11 DEF TypedInv, Client
<1>12. CASE \E d \in BillingDesks :
              \/ LoadPage(d) \/ BeginRefresh(d) \/ BeginGenerate(d) \/ BeginApprove(d)
              \/ BeginIssueAll(d)
  <2> PICK d \in BillingDesks :
              \/ LoadPage(d) \/ BeginRefresh(d) \/ BeginGenerate(d) \/ BeginApprove(d)
              \/ BeginIssueAll(d)
    BY <1>12
  <2>1. CASE LoadPage(d)
    BY <1>11, <2>1 DEF LoadPage
  <2>2. \A kind \in Loops : \A list \in SUBSET Clients : Begin(d, kind, list) => TypedInv'
    BY <1>0, <1>1
  <2>3. CASE BeginRefresh(d)
    BY <2>2, <2>3 DEF BeginRefresh, Loops
  <2>4. CASE BeginGenerate(d)
    <3>1. {c \in Clients : slot[c].status = "none"} \in SUBSET Clients
      OBVIOUS
    <3> QED
      BY <2>2, <2>4, <3>1 DEF BeginGenerate, Loops
  <2>5. CASE BeginApprove(d)
    <3>1. {c \in Clients : Awaiting(slot[c])} \in SUBSET Clients
      OBVIOUS
    <3> QED
      BY <2>2, <2>5, <3>1 DEF BeginApprove, Loops
  <2>6. CASE BeginIssueAll(d)
    <3>1. {c \in Clients : Cleared(slot[c])} \in SUBSET Clients
      OBVIOUS
    <3> QED
      BY <2>2, <2>6, <3>1 DEF BeginIssueAll, Loops
  <2> QED
    BY <2>1, <2>3, <2>4, <2>5, <2>6
<1>13. CASE \E r \in Snapshots : BeginSnapshot(r)
  <2> PICK r \in Snapshots : BeginSnapshot(r)
    BY <1>13
  <2>1. r \in Requests /\ "snapshot" \in Loops /\ Begin(r, "snapshot", Clients)
    BY <1>0 DEF BeginSnapshot, Loops
  <2> QED
    BY <1>1, <2>1
<1>14. CASE \E d \in BillingDesks, c \in Clients : RowAction(d, c)
  <2>1. UNCHANGED <<monthClosed, figure, request, typed>>
    BY <1>14 DEF RowAction, ApproveOne, UnapproveOne, IssueOne, DeleteDraft,
       WaiveCommission, OneDraft
  <2> QED
    BY <1>11, <2>1
<1>15. CASE MonthEnds \/ (\E c \in Clients : ShopTurns(c) \/ NightsComplete(c))
            \/ UNCHANGED billingRunVars
  <2>1. UNCHANGED <<figure, request, typed>> /\ (monthClosed => monthClosed')
    BY <1>15 DEF MonthEnds, ShopTurns, NightsComplete, billingRunVars
  <2> QED
    BY <1>11, <2>1
<1>16. CASE \E r \in Requests :
       \/ Pick(r) \/ Resolve(r) \/ CachedFigure(r) \/ FetchSales(r) \/ FetchFails(r)
       \/ RecordFigure(r) \/ RecordLost(r) \/ CommitDraft(r) \/ RequestDies(r)
  BY <1>3, <1>4, <1>5, <1>6, <1>8, <1>9, <1>10, <1>16
<1>17. CASE \E d \in BillingDesks :
       \/ EnterFigure(d) \/ ApproveNext(d) \/ IssueNext(d)
       \/ \E c \in Clients : BeginManual(d, c) \/ BeginRebuild(d, c)
  BY <1>0, <1>2, <1>4, <1>7, <1>17
<1> QED
  BY <1>12, <1>13, <1>14, <1>15, <1>16, <1>17 DEF BillingRunNext

\* Where one request runs at a time, no later read and no failure replaces a
\* figure an operator entered for a closed month.
THEOREM EnteredFigureStands ==
  ASSUME OneAtATime
  PROVE  BillingRunSpec => []ManualStands
<1>1. BillingRunInit => TypedInv
  BY DEF BillingRunInit, TypedInv, Quiet
<1>2. BillingInv /\ TypedInv /\ [BillingRunNext]_billingRunVars => TypedInv'
  BY TypedStep
<1>3. TypedInv => ManualStands
  BY DEF TypedInv, ManualStands, Entered
<1> QED
  BY <1>1, <1>2, <1>3, BillingInvariance, PTL DEF BillingRunSpec

-----------------------------------------------------------------------------
(* The subscriptions.                                                      *)

Live == {"prospect", "active", "suspended"}
Paying == {"active", "suspended"}

\* The rows follow each other: a later row never begins before an earlier one,
\* and none begins or ends within a month that is still to be billed.
RowsInOrder == \A i, j \in DOMAIN subs : i <= j => subs[i].from <= subs[j].from

RowsByMonth ==
  \A i \in DOMAIN subs :
    /\ subs[i].active
    /\ subs[i].from <= date \/ subs[i].from = FirstOf(ThisMonth + 1)
    /\ subs[i].until = Never \/ \E m \in Nat : subs[i].until = LastOf(m)

\* A row runs today, and the last one runs on, from the coming month at the
\* latest.
RowToday == \E i \in DOMAIN subs : subs[i].from <= date /\ subs[i].until >= date
LastRunsOn ==
  /\ subs # << >>
  /\ subs[Len(subs)].until = Never
  /\ subs[Len(subs)].from <= FirstOf(ThisMonth + 1)

Prospective == standing = "prospect" => Len(subs) = 1 /\ subs[1].from <= date

ExpenseByMonth ==
  /\ \E m \in Nat : expense.from = FirstOf(m)
  /\ expense.until = Never \/ \E m \in Nat : expense.until = LastOf(m)

RowsInv ==
  /\ SubscriptionsTypeOK
  /\ RowsInOrder
  /\ ExpenseByMonth
  /\ Prospective
  /\ standing = "none" => subs = << >>
  /\ standing \in Live => RowsByMonth /\ RowToday /\ LastRunsOn

\* A rebuild is of drafts that are there, each under the lock of its row; a draft
\* is generated of a month that has none.
EditorsInOrder ==
  \A e \in Editors :
    /\ editor[e].at # "loop" => editor[e].todo = {} /\ editor[e].holds = {}
    /\ editor[e].todo \subseteq Drafts /\ editor[e].holds \subseteq Drafts
    /\ \A m, n \in editor[e].holds : m = n
    /\ editor[e].holds # {} => editor[e].row.status = "draft"
    /\ \A f \in Editors \ {e} : editor[e].holds \cap editor[f].holds = {}

EditorsInv ==
  /\ EditorsInOrder
  /\ \A m \in Generating : monthDraft[m].status = "none"
  /\ standing \in {"none", "prospect"} => Drafts = {} /\ Generating = {}

\* What is read for a draft, and what a draft is, is what would be built now,
\* unless an edit is on its way to it or it is known to be older than one.
NoneDue == \A e \in Editors : editor[e].at # "due"
Awaited(m) == \E e \in Editors : m \in editor[e].todo
Locked(m) == \E e \in Editors : m \in editor[e].holds

DraftsInv ==
  standing \in Paying =>
    /\ \A m \in Generating \ outdated : Buildable(m) /\ generating[m] = Built(m)
    /\ NoneDue =>
         /\ \A m \in Drafts \ outdated :
              Awaited(m) \/ Locked(m) \/ (Buildable(m) /\ monthDraft[m] = Built(m))
         /\ \A e \in Editors : \A m \in editor[e].holds \ outdated :
              Awaited(m) \/ (Buildable(m) /\ editor[e].row = Built(m))

\* A flag is marked as graduated only by a request that moved the tenant.
MarksAfterMove ==
  \A m \in Months : MarkDue(m) \in inFlight \/ flag[m] = "graduated" => moved

-----------------------------------------------------------------------------
(* Days and months.                                                        *)

LEMMA DaysOfMonths ==
  ASSUME NEW m \in Nat, NEW n \in Nat
  PROVE  /\ FirstOf(m) \in Nat /\ LastOf(m) \in Nat /\ FirstOf(m) <= LastOf(m)
         /\ LastOf(m) + 1 = FirstOf(m + 1)
         /\ m < n => LastOf(m) < FirstOf(n) /\ FirstOf(m) < FirstOf(n) /\ LastOf(m) < LastOf(n)
         /\ FirstOf(m) <= LastOf(n) => m <= n
<1> DEFINE D == DaysInMonth
<1>0. D \in Nat \ {0}
  BY SubscriptionsAssumption
<1>1. /\ m * D \in Nat /\ n * D \in Nat
      /\ (m + 1) * D = m * D + D /\ (n + 1) * D = n * D + D
  BY <1>0
<1>2. m < n => m * D + D <= n * D
  <2> SUFFICES ASSUME m < n PROVE m * D + D <= n * D
    OBVIOUS
  <2>1. PICK k \in Nat : n = m + 1 + k
    <3>1. n - m - 1 \in Nat /\ n = m + 1 + (n - m - 1)
      OBVIOUS
    <3> QED
      BY <3>1
  <2>2. n * D = m * D + D + k * D /\ k * D \in Nat
    BY <1>0, <2>1
  <2> QED
    BY <1>1, <2>2, <1>0
<1>3. n < m => n * D + D <= m * D
  <2> SUFFICES ASSUME n < m PROVE n * D + D <= m * D
    OBVIOUS
  <2>1. PICK k \in Nat : m = n + 1 + k
    <3>1. m - n - 1 \in Nat /\ m = n + 1 + (m - n - 1)
      OBVIOUS
    <3> QED
      BY <3>1
  <2>2. m * D = n * D + D + k * D /\ k * D \in Nat
    BY <1>0, <2>1
  <2> QED
    BY <1>1, <2>2, <1>0
<1>4. FirstOf(m) = m * D /\ FirstOf(n) = n * D /\ LastOf(m) = m * D + D - 1
      /\ LastOf(n) = n * D + D - 1 /\ FirstOf(m + 1) = m * D + D
  <2>1. FirstOf(m) = m * D /\ FirstOf(n) = n * D
    BY DEF FirstOf
  <2>2. FirstOf(m + 1) = m * D + D /\ FirstOf(n + 1) = n * D + D
    BY <1>1, Zenon DEF FirstOf
  <2>3. LastOf(m) = m * D + D - 1 /\ LastOf(n) = n * D + D - 1
    <3>1. LastOf(m) = FirstOf(m + 1) - 1 /\ LastOf(n) = FirstOf(n + 1) - 1
      BY DEF LastOf
    <3> QED
      BY <1>0, <1>1, <2>2, <3>1
  <2> QED
    BY <2>1, <2>2, <2>3
<1> HIDE DEF D
<1> DEFINE x == m * D
           y == n * D
<1> HIDE DEF x, y
<1>5. x \in Nat /\ y \in Nat /\ (m < n => x + D <= y) /\ (n < m => y + D <= x)
  BY <1>1, <1>2, <1>3 DEF x, y
<1>6. FirstOf(m) = x /\ FirstOf(n) = y /\ LastOf(m) = x + D - 1
      /\ LastOf(n) = y + D - 1 /\ FirstOf(m + 1) = x + D
  BY <1>4 DEF x, y
<1> QED
  BY <1>0, <1>5, <1>6

LEMMA MonthOfDate ==
  ASSUME NEW d \in Nat
  PROVE  MonthOf(d) \in Nat /\ FirstOf(MonthOf(d)) <= d /\ d <= LastOf(MonthOf(d))
<1>1. DaysInMonth \in Nat \ {0}
  BY SubscriptionsAssumption
<1> DEFINE m == d \div DaysInMonth
           r == d % DaysInMonth
<1>a. r \in 0 .. DaysInMonth - 1
  BY <1>1
<1>b. m \in Int
  BY <1>1
<1>c. d = DaysInMonth * m + r
  BY <1>1
<1>2. /\ m \in Nat /\ m * DaysInMonth <= d
      /\ d < (m + 1) * DaysInMonth
  <2> HIDE DEF m, r
  <2>1. m * DaysInMonth \in Int /\ (m + 1) * DaysInMonth = m * DaysInMonth + DaysInMonth
        /\ DaysInMonth * m = m * DaysInMonth
    BY <1>1, <1>b
  <2>2. m * DaysInMonth <= d /\ d < m * DaysInMonth + DaysInMonth
    BY <1>1, <1>a, <1>c, <2>1
  <2>3. m \in Nat
    <3> SUFFICES ASSUME m < 0 PROVE FALSE
      BY <1>b
    <3>1. PICK k \in Nat : m = -1 - k
      <4>1. -1 - m \in Nat /\ m = -1 - (-1 - m)
        BY <1>b
      <4> QED
        BY <4>1
    <3>2. (m + 1) * DaysInMonth = -(k * DaysInMonth) /\ k * DaysInMonth \in Nat
      BY <1>1, <3>1
    <3> QED
      BY <2>1, <2>2, <3>2
  <2> QED
    BY <2>1, <2>2, <2>3
<1>3. (m + 1) * DaysInMonth \in Nat
  BY <1>1, <1>2
<1> QED
  BY <1>2, <1>3 DEF MonthOf, FirstOf, LastOf

\* The same for every date the model has, and for the one it is at.
LEMMA CalendarOf ==
  ASSUME NEW d \in Dates
  PROVE  /\ d \in Nat /\ MonthOf(d) \in Months /\ MonthOf(d) \in Nat
         /\ FirstOf(MonthOf(d)) <= d /\ d <= LastOf(MonthOf(d))
<1>0. LastMonth \in Nat /\ LastMonth + 1 \in Nat
  BY SubscriptionsAssumption
<1>1. FirstOf(LastMonth + 1) \in Nat
  BY <1>0, DaysOfMonths
<1>2. d \in Nat /\ d < FirstOf(LastMonth + 1)
  <2>1. d \in 0 .. FirstOf(LastMonth + 1) - 1
    BY DEF Dates, FirstOf
  <2> QED
    BY <1>1, <2>1
<1>3. MonthOf(d) \in Nat /\ FirstOf(MonthOf(d)) <= d /\ d <= LastOf(MonthOf(d))
  BY <1>2, MonthOfDate
<1> DEFINE m == MonthOf(d)
<1> HIDE DEF m
<1>4. /\ m \in Nat /\ FirstOf(m) \in Nat
      /\ LastMonth + 1 = m => FirstOf(LastMonth + 1) = FirstOf(m)
      /\ LastMonth + 1 < m => FirstOf(LastMonth + 1) < FirstOf(m)
      /\ FirstOf(m) < FirstOf(LastMonth + 1)
  BY <1>0, <1>1, <1>2, <1>3, DaysOfMonths DEF m
<1>5. m \in Months
  BY <1>0, <1>1, <1>4 DEF Months
<1> QED
  BY <1>2, <1>3, <1>5 DEF m

LEMMA NeverFacts ==
  /\ Never \in Nat /\ Never = FirstOf(LastMonth + 2) /\ LastMonth + 2 \in Nat
  /\ Months \subseteq Nat
  /\ \A m \in Months : LastOf(m) < Never /\ FirstOf(m + 1) < Never
<1>0. LastMonth \in Nat /\ DaysInMonth \in Nat \ {0}
  BY SubscriptionsAssumption
<1>1. Never = FirstOf(LastMonth + 2) /\ LastMonth + 2 \in Nat
  BY <1>0 DEF Never, FirstOf
<1>2. Never \in Nat
  BY <1>1, DaysOfMonths
<1>3. ASSUME NEW m \in Months PROVE LastOf(m) < Never /\ FirstOf(m + 1) < Never
  <2>1. m \in Nat /\ m + 1 \in Nat /\ m < LastMonth + 2 /\ m + 1 < LastMonth + 2
    BY <1>0 DEF Months
  <2> QED
    BY <1>1, <2>1, DaysOfMonths
<1> QED
  BY <1>0, <1>1, <1>2, <1>3 DEF Months

LEMMA Calendar ==
  ASSUME SubscriptionsTypeOK
  PROVE  /\ date \in Nat /\ ThisMonth \in Months /\ Months \subseteq Nat
         /\ FirstOf(ThisMonth) <= date /\ date <= LastOf(ThisMonth)
         /\ Never \in Nat /\ Never = FirstOf(LastMonth + 2) /\ LastMonth + 2 \in Nat
         /\ \A m \in Months : LastOf(m) < Never /\ FirstOf(m + 1) < Never
BY CalendarOf, NeverFacts DEF SubscriptionsTypeOK, ThisMonth

\* The day after is in the same month, or the first of the next.
LEMMA DayAfter ==
  ASSUME NEW d \in Dates, d + 1 \in Dates
  PROVE  \/ MonthOf(d + 1) = MonthOf(d) /\ d < LastOf(MonthOf(d))
         \/ /\ MonthOf(d + 1) = MonthOf(d) + 1
            /\ d + 1 = FirstOf(MonthOf(d) + 1) /\ d = LastOf(MonthOf(d))
<1> DEFINE m == MonthOf(d)
           n == MonthOf(d + 1)
<1>1. /\ d \in Nat /\ m \in Nat /\ FirstOf(m) <= d /\ d <= LastOf(m)
      /\ n \in Nat /\ FirstOf(n) <= d + 1 /\ d + 1 <= LastOf(n)
  BY CalendarOf
<1> HIDE DEF m, n
<1>2. /\ FirstOf(m) \in Nat /\ LastOf(m) \in Nat /\ FirstOf(n) \in Nat /\ LastOf(n) \in Nat
      /\ m + 1 \in Nat /\ LastOf(m) + 1 = FirstOf(m + 1) /\ FirstOf(m + 1) \in Nat
      /\ n < m => LastOf(n) < FirstOf(m)
      /\ m + 1 < n => FirstOf(m + 1) < FirstOf(n)
      /\ m < n => LastOf(m) < FirstOf(n)
  BY <1>1, DaysOfMonths
<1>3. CASE n < m
  BY <1>1, <1>2, <1>3
<1>4. CASE m + 1 < n
  BY <1>1, <1>2, <1>4
<1>5. CASE n = m
  BY <1>1, <1>2, <1>5 DEF m, n
<1>6. CASE n = m + 1
  BY <1>1, <1>2, <1>6 DEF m, n
<1> QED
  BY <1>1, <1>3, <1>4, <1>5, <1>6

-----------------------------------------------------------------------------
(* Which row a query finds.                                                *)

\* A set of natural numbers has a least element, one within 1 .. n a greatest.
LEMMA LeastNatural ==
  ASSUME NEW S \in SUBSET Nat, S # {}
  PROVE  \E m \in S : \A n \in S : m <= n
<1>1. PICK m \in S : \A n \in S : <<n, m>> \notin OpToRel(<, Nat)
  BY NatLessThanWellFounded, WFMin
<1>2. \A n \in S : m <= n
  <2> SUFFICES ASSUME NEW n \in S, n < m PROVE FALSE
    OBVIOUS
  <2>1. <<n, m>> \in Nat \X Nat /\ <<n, m>>[1] < <<n, m>>[2]
    OBVIOUS
  <2> QED
    BY <1>1, <2>1, Zenon DEF OpToRel
<1> QED
  BY <1>2

LEMMA GreatestRow ==
  ASSUME NEW n \in Nat, NEW ids \in SUBSET (1 .. n), ids # {}
  PROVE  \E i \in ids : \A j \in ids : j <= i
<1> DEFINE S == {k \in Nat : n - k \in ids}
<1>1. S # {}
  <2> PICK i \in ids : TRUE
    OBVIOUS
  <2>1. n - i \in Nat /\ n - (n - i) = i
    OBVIOUS
  <2> QED
    BY <2>1
<1>2. PICK k \in S : \A l \in S : k <= l
  <2> HIDE DEF S
  <2>1. S \in SUBSET Nat
    BY DEF S
  <2> QED
    BY <1>1, <2>1, LeastNatural
<1>3. \A j \in ids : j <= n - k
  <2> SUFFICES ASSUME NEW j \in ids PROVE j <= n - k
    OBVIOUS
  <2>1. n - j \in Nat /\ n - (n - j) = j
    OBVIOUS
  <2>2. k <= n - j
    BY <1>2, <2>1
  <2> QED
    BY <1>2, <2>1, <2>2
<1> QED
  BY <1>2, <1>3

\* Latest, said of any rows: where they follow each other, the last of them.
LatestOf(rows, ids) == CHOOSE i \in ids :
  \A j \in ids : \/ rows[j].from < rows[i].from
                 \/ rows[j].from = rows[i].from /\ j <= i

LEMMA LatestIsLast ==
  ASSUME NEW rows, NEW n \in Nat, NEW ids \in SUBSET (1 .. n), ids # {},
         \A i \in ids : rows[i].from \in Nat,
         \A i, j \in ids : i <= j => rows[i].from <= rows[j].from
  PROVE  LatestOf(rows, ids) \in ids /\ \A j \in ids : j <= LatestOf(rows, ids)
<1> DEFINE Last(i) == \A j \in ids : \/ rows[j].from < rows[i].from
                                     \/ rows[j].from = rows[i].from /\ j <= i
<1>1. PICK i \in ids : \A j \in ids : j <= i
  BY GreatestRow
<1>2. Last(i)
  <2> SUFFICES ASSUME NEW j \in ids
               PROVE  \/ rows[j].from < rows[i].from
                      \/ rows[j].from = rows[i].from /\ j <= i
    OBVIOUS
  <2>1. rows[j].from <= rows[i].from /\ rows[j].from \in Nat /\ rows[i].from \in Nat
    BY <1>1
  <2> QED
    BY <1>1, <2>1
<1>3. LatestOf(rows, ids) \in ids /\ Last(LatestOf(rows, ids))
  BY <1>2 DEF LatestOf
<1>4. ASSUME NEW j \in ids PROVE j <= LatestOf(rows, ids)
  <2> DEFINE l == LatestOf(rows, ids)
  <2> HIDE DEF l
  <2>1. /\ l \in ids
        /\ \/ rows[j].from < rows[l].from
           \/ rows[j].from = rows[l].from /\ j <= l
    BY <1>3 DEF l
  <2>2. l <= j => rows[l].from <= rows[j].from
    BY <2>1
  <2>3. rows[l].from \in Nat /\ rows[j].from \in Nat /\ l \in Nat /\ j \in Nat
    BY <2>1
  <2> QED
    BY <2>1, <2>2, <2>3 DEF l
<1> QED
  BY <1>3, <1>4

LEMMA LatestRow ==
  ASSUME SubscriptionsTypeOK, RowsInOrder, NEW ids \in SUBSET DOMAIN subs, ids # {}
  PROVE  /\ Latest(ids) \in ids /\ Latest(ids) \in DOMAIN subs
         /\ subs[Latest(ids)] \in SubRecord
         /\ \A j \in ids : j <= Latest(ids)
<1>1. /\ Len(subs) \in Nat /\ DOMAIN subs = 1 .. Len(subs)
      /\ \A i \in DOMAIN subs : subs[i] \in SubRecord
  BY DEF SubscriptionsTypeOK
<1>2. \A i \in ids : subs[i].from \in Nat
  BY <1>1 DEF SubRecord
<1>3. Latest(ids) = LatestOf(subs, ids)
  BY DEF Latest, LatestOf
<1>4. LatestOf(subs, ids) \in ids /\ \A j \in ids : j <= LatestOf(subs, ids)
  BY <1>1, <1>2, LatestIsLast DEF RowsInOrder
<1> QED
  BY <1>1, <1>3, <1>4

LEMMA LeastPrice == Min(Prices) \in Prices
<1>1. PICK p \in Prices : \A q \in Prices : p <= q
  BY LeastNatural, SubscriptionsAssumption
<1>2. \A q, r \in Prices : r >= q <=> q <= r
  BY SubscriptionsAssumption
<1> QED
  BY <1>1, <1>2 DEF Min

\* The price of a single row is what a sum over it is.
LEMMA PricedOne ==
  ASSUME SubscriptionsTypeOK, NEW i \in DOMAIN subs
  PROVE  Priced({i}) = subs[i].price
<1>1. subs[i] \in SubRecord /\ subs[i].price \in Int
  <2>1. subs[i] \in SubRecord
    BY DEF SubscriptionsTypeOK
  <2>2. subs[i].price \in Prices
    BY <2>1 DEF SubRecord
  <2>3. \A p \in Prices : p \in Int
    BY SubscriptionsAssumption
  <2> QED
    BY <2>1, <2>2, <2>3
<1> DEFINE AnyOf(S) == CHOOSE x \in S : TRUE
           Fold(g) == g = [S \in SUBSET {i} |->
             IF S = {} THEN 0 ELSE subs[AnyOf(S)].price + g[S \ {AnyOf(S)}]]
           h == [S \in SUBSET {i} |-> IF S = {} THEN 0 ELSE subs[i].price]
<1>2. Priced({i}) = (CHOOSE g : Fold(g))[{i}]
  BY DEF Priced, MapThenSumSet, MapThenFoldSet
<1>3. \A S \in SUBSET {i} : S # {} => S = {i} /\ AnyOf(S) = i /\ S \ {AnyOf(S)} = {}
  OBVIOUS
<1>4. \A S \in SUBSET {i} :
        h[S] = IF S = {} THEN 0 ELSE subs[AnyOf(S)].price + h[S \ {AnyOf(S)}]
  <2> SUFFICES ASSUME NEW S \in SUBSET {i}
      PROVE  h[S] = IF S = {} THEN 0 ELSE subs[AnyOf(S)].price + h[S \ {AnyOf(S)}]
    OBVIOUS
  <2>1. CASE S = {}
    BY <2>1
  <2>2. CASE S # {}
    <3>1. AnyOf(S) = i /\ S \ {AnyOf(S)} = {} /\ h[{}] = 0 /\ h[S] = subs[i].price
      BY <1>3, <2>2
    <3> HIDE DEF h, AnyOf
    <3>2. h[S \ {AnyOf(S)}] = 0 /\ subs[AnyOf(S)].price = subs[i].price
      BY <3>1
    <3>3. h[S] = subs[AnyOf(S)].price + h[S \ {AnyOf(S)}]
      BY <1>1, <3>1, <3>2
    <3> QED
      BY <2>2, <3>3
  <2> QED
    BY <2>1, <2>2
<1>5. Fold(h)
  <2>1. h = [S \in SUBSET {i} |-> h[S]]
    OBVIOUS
  <2> HIDE DEF h, AnyOf
  <2> QED
    BY <1>4, <2>1
<1>6. Fold(CHOOSE g : Fold(g))
  <2> HIDE DEF Fold, h
  <2> QED
    BY <1>5
<1> DEFINE g == CHOOSE g : Fold(g)
<1>7. g[{}] = 0 /\ g[{i}] = subs[AnyOf({i})].price + g[{i} \ {AnyOf({i})}]
  <2>1. Fold(g)
    BY <1>6
  <2> HIDE DEF g, AnyOf
  <2> QED
    BY <2>1
<1>8. AnyOf({i}) = i /\ {i} \ {AnyOf({i})} = {}
  BY <1>3
<1>9. Priced({i}) = g[{i}]
  BY <1>2, Zenon
<1> HIDE DEF g, AnyOf, Fold
<1>10. g[{i}] = subs[i].price + 0
  BY <1>7, <1>8, Zenon
<1> QED
  BY <1>1, <1>9, <1>10

\* What a month that has not passed says of the days in it.
LEMMA DayOfMonth ==
  ASSUME SubscriptionsTypeOK, NEW m \in Nat
  PROVE  /\ LastOf(m) >= FirstOf(ThisMonth) => LastOf(m) >= date
         /\ FirstOf(m) <= LastOf(ThisMonth) => FirstOf(m) <= date
<1>0. /\ ThisMonth \in Nat /\ date \in Nat
      /\ FirstOf(ThisMonth) <= date /\ date <= LastOf(ThisMonth)
  BY Calendar
<1>1. /\ FirstOf(m) \in Nat /\ LastOf(m) \in Nat
      /\ FirstOf(ThisMonth) \in Nat /\ LastOf(ThisMonth) \in Nat
      /\ m < ThisMonth => LastOf(m) < FirstOf(ThisMonth) /\ FirstOf(m) < FirstOf(ThisMonth)
      /\ ThisMonth < m => LastOf(ThisMonth) < FirstOf(m) /\ LastOf(ThisMonth) < LastOf(m)
  BY <1>0, DaysOfMonths
<1>2. CASE m < ThisMonth
  BY <1>0, <1>1, <1>2
<1>3. CASE m = ThisMonth
  BY <1>0, <1>1, <1>3
<1>4. CASE ThisMonth < m
  BY <1>0, <1>1, <1>4
<1> QED
  BY <1>0, <1>2, <1>3, <1>4

LEMMA RowTypes ==
  ASSUME SubscriptionsTypeOK
  PROVE  /\ Len(subs) \in Nat /\ DOMAIN subs = 1 .. Len(subs)
         /\ \A i \in DOMAIN subs : subs[i] \in SubRecord
         /\ \A i \in DOMAIN subs : subs[i].from \in Nat /\ subs[i].until \in Nat
<1>1. /\ Len(subs) \in Nat /\ DOMAIN subs = 1 .. Len(subs)
      /\ \A i \in DOMAIN subs : subs[i] \in SubRecord
  BY DEF SubscriptionsTypeOK
<1> QED
  BY <1>1 DEF SubRecord

\* What is billed this month is what runs today.
LEMMA BilledIsCurrent ==
  ASSUME RowsInv, standing \in Live
  PROVE  CurrentSubs = BillingSubs(ThisMonth) /\ CurrentSubs # {}
<1>0. SubscriptionsTypeOK /\ RowsByMonth /\ RowToday
  BY DEF RowsInv
<1>1. /\ date \in Nat /\ ThisMonth \in Months /\ ThisMonth \in Nat /\ ThisMonth + 1 \in Nat
      /\ FirstOf(ThisMonth) <= date /\ date <= LastOf(ThisMonth) /\ LastOf(ThisMonth) < Never
      /\ Never \in Nat /\ FirstOf(ThisMonth) \in Nat /\ LastOf(ThisMonth) \in Nat
      /\ FirstOf(ThisMonth + 1) = LastOf(ThisMonth) + 1
  BY <1>0, Calendar, DaysOfMonths
<1>2. ASSUME NEW i \in DOMAIN subs
      PROVE  /\ subs[i].active
             /\ subs[i].from <= date <=> subs[i].from <= LastOf(ThisMonth)
             /\ subs[i].until >= date <=> subs[i].until >= FirstOf(ThisMonth)
  <2>0. subs[i].from \in Nat /\ subs[i].until \in Nat
    BY <1>0, RowTypes
  <2>1. /\ subs[i].active
        /\ subs[i].from <= date \/ subs[i].from = FirstOf(ThisMonth + 1)
        /\ subs[i].until = Never \/ \E m \in Nat : subs[i].until = LastOf(m)
    BY <1>0 DEF RowsByMonth
  <2>2. subs[i].from <= date <=> subs[i].from <= LastOf(ThisMonth)
    BY <1>1, <2>0, <2>1
  <2>3. subs[i].until >= FirstOf(ThisMonth) => subs[i].until >= date
    BY <1>0, <1>1, <2>0, <2>1, DayOfMonth
  <2>4. subs[i].until >= date => subs[i].until >= FirstOf(ThisMonth)
    BY <1>1, <2>0
  <2> QED
    BY <2>1, <2>2, <2>3, <2>4
<1>3. CurrentSubs = BillingSubs(ThisMonth)
  BY <1>2 DEF CurrentSubs, BillingSubs, Active
<1>4. CurrentSubs # {}
  BY <1>0, <1>2 DEF RowToday, CurrentSubs, Active
<1> QED
  BY <1>3, <1>4

\* The last row is open, and bills every month to come.
LEMMA LastRow ==
  ASSUME RowsInv, standing \in Live
  PROVE  /\ Len(subs) \in DOMAIN subs
         /\ Len(subs) \in OpenSubs /\ Len(subs) \in PriceableSubs
         /\ \A m \in Months : m > ThisMonth => Len(subs) \in BillingSubs(m)
<1>0. SubscriptionsTypeOK /\ RowsByMonth /\ LastRunsOn
  BY DEF RowsInv
<1>1. Len(subs) \in DOMAIN subs
  BY <1>0, RowTypes DEF LastRunsOn
<1>2. /\ subs[Len(subs)].active /\ subs[Len(subs)].until = Never
      /\ subs[Len(subs)].from <= FirstOf(ThisMonth + 1)
      /\ subs[Len(subs)].from \in Nat
  BY <1>0, <1>1, RowTypes DEF LastRunsOn, RowsByMonth
<1>3. date \in Nat /\ Never \in Nat /\ ThisMonth \in Nat /\ ThisMonth + 1 \in Nat
      /\ ThisMonth \in Months /\ Months \subseteq Nat
  BY <1>0, Calendar
<1>4. Never >= date
  <2>1. date <= LastOf(ThisMonth) /\ LastOf(ThisMonth) < Never
    BY <1>0, <1>3, Calendar
  <2> QED
    BY <1>3, <2>1, DaysOfMonths
<1>5. ASSUME NEW m \in Months, m > ThisMonth
      PROVE  subs[Len(subs)].from <= LastOf(m) /\ Never >= FirstOf(m)
  <2>0. m \in Nat /\ FirstOf(m) \in Nat /\ LastOf(m) \in Nat /\ FirstOf(m) <= LastOf(m)
        /\ LastOf(m) < Never
    BY <1>0, <1>3, Calendar, DaysOfMonths
  <2>1. FirstOf(ThisMonth + 1) <= FirstOf(m) /\ FirstOf(ThisMonth + 1) \in Nat
    <3>1. CASE m = ThisMonth + 1
      BY <2>0, <3>1
    <3>2. CASE ThisMonth + 1 < m
      BY <1>3, <2>0, <3>2, DaysOfMonths
    <3> QED
      BY <1>3, <1>5, <2>0, <3>1, <3>2
  <2> QED
    BY <1>2, <1>3, <2>0, <2>1
<1> QED
  BY <1>1, <1>2, <1>4, <1>5 DEF OpenSubs, PriceableSubs, BillingSubs, Active

LEMMA ExpenseAgrees ==
  ASSUME SubscriptionsTypeOK, ExpenseByMonth
  PROVE  ExpenseNow <=> ExpenseIn(ThisMonth)
<1>0. /\ date \in Nat /\ ThisMonth \in Nat /\ Never \in Nat
      /\ FirstOf(ThisMonth) <= date /\ date <= LastOf(ThisMonth)
      /\ LastOf(ThisMonth) < Never /\ FirstOf(ThisMonth) \in Nat /\ LastOf(ThisMonth) \in Nat
  BY Calendar, DaysOfMonths
<1>1. expense.from \in Nat /\ expense.until \in Nat
  BY DEF SubscriptionsTypeOK
<1>2. expense.from <= LastOf(ThisMonth) => expense.from <= date
  BY DayOfMonth DEF ExpenseByMonth
<1>3. expense.until >= FirstOf(ThisMonth) => expense.until >= date
  BY <1>0, DayOfMonth DEF ExpenseByMonth
<1> QED
  BY <1>0, <1>1, <1>2, <1>3 DEF ExpenseNow, ExpenseIn

LEMMA RowsAreShown == RowsInv => ShownIsBilled
<1> SUFFICES ASSUME RowsInv PROVE ShownIsBilled
  OBVIOUS
<1>0. SubscriptionsTypeOK /\ RowsInOrder /\ ExpenseByMonth
      /\ standing \in {"none", "prospect", "active", "suspended", "offboarded"}
  BY DEF RowsInv, SubscriptionsTypeOK
<1>1. ASSUME standing \in Paying
      PROVE  /\ \A m \in Months : m >= ThisMonth => Buildable(m)
             /\ ShownSub = {Latest(BillingSubs(ThisMonth))}
             /\ PageMrr = [sub |-> Built(ThisMonth).price, expense |-> Built(ThisMonth).expense]
  <2>0. standing \in Live
    BY <1>1 DEF Paying, Live
  <2>1. CurrentSubs = BillingSubs(ThisMonth) /\ CurrentSubs # {}
    BY <2>0, BilledIsCurrent
  <2>2. ASSUME NEW m \in Months, m >= ThisMonth PROVE Buildable(m)
    <3>1. ThisMonth \in Nat /\ m \in Nat
      BY <1>0, Calendar
    <3>2. CASE m = ThisMonth
      BY <2>1, <3>2 DEF Buildable
    <3>3. CASE m > ThisMonth
      BY <2>0, <3>3, LastRow DEF Buildable
    <3> QED
      BY <2>2, <3>1, <3>2, <3>3
  <2>3. ShownSub = {Latest(CurrentSubs)}
    BY <2>1 DEF ShownSub
  <2>4. Latest(CurrentSubs) \in DOMAIN subs
    <3>1. CurrentSubs \in SUBSET DOMAIN subs
      BY DEF CurrentSubs
    <3> QED
      BY <1>0, <2>1, <3>1, LatestRow
  <2>5. Priced(ShownSub) = subs[Latest(CurrentSubs)].price
    <3>1. Priced({Latest(CurrentSubs)}) = subs[Latest(CurrentSubs)].price
      BY <1>0, <2>4, PricedOne
    <3> QED
      BY <2>3, <3>1, Zenon
  <2>6. /\ Built(ThisMonth).price = subs[Latest(BillingSubs(ThisMonth))].price
        /\ Built(ThisMonth).expense = ExpenseIn(ThisMonth)
    BY DEF Built
  <2>7. ExpenseNow = ExpenseIn(ThisMonth)
    <3>1. ExpenseNow \in BOOLEAN /\ ExpenseIn(ThisMonth) \in BOOLEAN
      BY DEF ExpenseNow, ExpenseIn
    <3> QED
      BY <1>0, <3>1, ExpenseAgrees
  <2> QED
    BY <2>1, <2>2, <2>3, <2>5, <2>6, <2>7 DEF PageMrr
<1>2. OffersPackage => OpenSubs # {}
  <2>1. CASE standing \in Live
    BY <2>1, LastRow
  <2>2. CASE standing = "none"
    BY <2>2 DEF RowsInv, OffersPackage, TabSub
  <2> QED
    BY <1>0, <2>1, <2>2 DEF OffersPackage, Live
<1>3. OffersPrice => PriceableSubs # {}
  <2>1. CASE standing \in Live
    BY <2>1, LastRow
  <2>2. CASE standing = "none"
    BY <2>2 DEF RowsInv, OffersPrice, TabSub
  <2> QED
    BY <1>0, <2>1, <2>2 DEF OffersPrice, Live
<1>4. OffersPlanChange => CurrentSubs # {}
  BY BilledIsCurrent DEF OffersPlanChange, Live
<1>5. OffersActivation => OpenSubs # {}
  BY LastRow DEF OffersActivation, Live
<1> QED
  BY <1>1, <1>2, <1>3, <1>4, <1>5 DEF ShownIsBilled, Paying

-----------------------------------------------------------------------------
(* The edits.                                                              *)

RestTypes ==
  /\ standing \in {"none", "prospect", "active", "suspended", "offboarded"}
  /\ catalogue \in [Plans -> Prices]
  /\ monthDraft \in [Months -> DraftRows]
  /\ flag \in [Months -> {"none", "open", "dismissed", "graduated"}]
  /\ inFlight \subseteq Tasks
  /\ editor \in [Editors -> EditorRows]
  /\ generating \in [Months -> DraftRows]
  /\ outdated \subseteq Months
  /\ moved \in BOOLEAN
  /\ edits \in 0 .. MaxEdits
  /\ losses \in 0 .. MaxLosses

LEMMA TypesInTwo ==
  SubscriptionsTypeOK <=>
    /\ RestTypes
    /\ subs \in Seq(SubRecord) /\ Len(subs) <= MaxSubs
    /\ expense \in [from : Nat, until : Nat]
    /\ date \in Dates
BY DEF SubscriptionsTypeOK, RestTypes

\* A step that leaves the rows, the expense, the standing and the day.
LEMMA RowsUntouched ==
  ASSUME RowsInv, RestTypes', UNCHANGED <<standing, subs, expense, date>>
  PROVE  RowsInv'
<1>1. SubscriptionsTypeOK'
  BY TypesInTwo DEF RowsInv, SubscriptionsTypeOK, RestTypes
<1> QED
  BY <1>1 DEF RowsInv, RowsInOrder, RowsByMonth, RowToday, LastRunsOn, Prospective,
     ExpenseByMonth, ThisMonth

\* An edit of a row that leaves its dates, and whether it is in force.
LEMMA RowEdited ==
  ASSUME RowsInv, NEW k \in DOMAIN subs, NEW rec \in SubRecord,
         rec.from = subs[k].from, rec.until = subs[k].until, rec.active = subs[k].active,
         subs' = [subs EXCEPT ![k] = rec]
  PROVE  /\ subs' \in Seq(SubRecord) /\ Len(subs') = Len(subs)
         /\ DOMAIN subs' = DOMAIN subs
         /\ \A i \in DOMAIN subs : /\ subs'[i].from = subs[i].from
                                   /\ subs'[i].until = subs[i].until
                                   /\ subs'[i].active = subs[i].active
<1>1. subs \in Seq(SubRecord) /\ DOMAIN subs = 1 .. Len(subs)
  BY DEF RowsInv, SubscriptionsTypeOK
<1>2. /\ subs' \in Seq(SubRecord) /\ Len(subs') = Len(subs)
      /\ \A i \in 1 .. Len(subs) : subs'[i] = IF i = k THEN rec ELSE subs[i]
  BY <1>1, ExceptSeq
<1>3. DOMAIN subs' = DOMAIN subs
  BY <1>1, <1>2
<1> QED
  BY <1>1, <1>2, <1>3

LEMMA RowEditKeeps ==
  ASSUME RowsInv, RestTypes', NEW k \in DOMAIN subs, NEW rec \in SubRecord,
         rec.from = subs[k].from, rec.until = subs[k].until, rec.active = subs[k].active,
         subs' = [subs EXCEPT ![k] = rec], UNCHANGED <<standing, expense, date>>
  PROVE  RowsInv'
<1>1. /\ subs' \in Seq(SubRecord) /\ Len(subs') = Len(subs) /\ DOMAIN subs' = DOMAIN subs
      /\ \A i \in DOMAIN subs : /\ subs'[i].from = subs[i].from
                                /\ subs'[i].until = subs[i].until
                                /\ subs'[i].active = subs[i].active
  BY RowEdited
<1>2. SubscriptionsTypeOK'
  BY <1>1 DEF RowsInv, SubscriptionsTypeOK, RestTypes
<1>3. RowsInOrder' /\ ExpenseByMonth'
  BY <1>1 DEF RowsInv, RowsInOrder, ExpenseByMonth
<1>4. /\ SubscriptionsTypeOK /\ Len(subs) \in Nat /\ DOMAIN subs = 1 .. Len(subs)
  BY RowTypes DEF RowsInv
<1>5. Prospective' /\ standing # "none"
  <2>1. k \in 1 .. Len(subs)
    BY <1>4
  <2>2. standing = "prospect" => 1 \in DOMAIN subs
    BY <1>4 DEF RowsInv, Prospective
  <2> QED
    BY <1>1, <1>4, <2>1, <2>2 DEF RowsInv, Prospective
<1>6. standing \in Live => RowsByMonth' /\ RowToday'
  BY <1>1 DEF RowsInv, RowsByMonth, RowToday, ThisMonth
<1>7. standing \in Live => LastRunsOn'
  <2> SUFFICES ASSUME standing \in Live PROVE LastRunsOn'
    OBVIOUS
  <2>1. LastRunsOn /\ Len(subs) \in DOMAIN subs
    BY LastRow DEF RowsInv
  <2>2. subs' # << >>
    BY <1>1, <1>4, <2>1
  <2> QED
    BY <1>1, <2>1, <2>2 DEF LastRunsOn, ThisMonth
<1> QED
  BY <1>2, <1>3, <1>5, <1>6, <1>7 DEF RowsInv

\* A change of plan: the row that runs ends with the month, a new one begins
\* with the next.
LEMMA SwitchRows ==
  ASSUME RowsInv, NEW plan \in Plans, NEW price \in Prices, Switch(plan, price)
  PROVE  LET k == Latest(CurrentSubs)
             n == Len(subs)
         IN /\ k \in CurrentSubs /\ k \in 1 .. n
            /\ subs' \in Seq(SubRecord) /\ Len(subs') = n + 1 /\ n + 1 <= MaxSubs
            /\ subs'[n + 1] = Sells(plan, price, FirstOf(ThisMonth + 1))
            /\ \A i \in 1 .. n : i # k => subs'[i] = subs[i]
            /\ subs'[k] = [subs[k] EXCEPT !.until = LastOf(ThisMonth)]
            /\ DOMAIN subs = 1 .. n /\ n \in Nat /\ DOMAIN subs' = 1 .. (n + 1)
            /\ standing \in Paying
<1> DEFINE k == Latest(CurrentSubs)
           n == Len(subs)
           ended == [subs[k] EXCEPT !.until = LastOf(ThisMonth)]
           rows == [subs EXCEPT ![k] = ended]
           new == Sells(plan, price, FirstOf(ThisMonth + 1))
<1>0. /\ SubscriptionsTypeOK /\ RowsInOrder /\ standing \in Paying
      /\ CurrentSubs # {} /\ n < MaxSubs /\ MaxSubs \in Nat
      /\ subs' = Append([subs EXCEPT ![k].until = FirstOf(ThisMonth + 1) - 1], new)
  BY SubscriptionsAssumption DEF RowsInv, Switch, SwitchAt, Paying
<1>1. /\ n \in Nat /\ DOMAIN subs = 1 .. n /\ subs \in Seq(SubRecord)
      /\ \A i \in DOMAIN subs : subs[i] \in SubRecord
  BY <1>0, RowTypes DEF SubscriptionsTypeOK
<1>2. k \in CurrentSubs /\ k \in 1 .. n /\ subs[k] \in SubRecord
  <2>1. CurrentSubs \in SUBSET DOMAIN subs
    BY DEF CurrentSubs
  <2> QED
    BY <1>0, <1>1, <2>1, LatestRow
<1>3. /\ ThisMonth \in Nat /\ LastOf(ThisMonth) \in Nat /\ FirstOf(ThisMonth + 1) \in Nat
      /\ LastOf(ThisMonth) = FirstOf(ThisMonth + 1) - 1 /\ Never \in Nat
  <2>1. ThisMonth \in Nat /\ ThisMonth + 1 \in Nat /\ Never \in Nat
    BY <1>0, Calendar
  <2> QED
    BY <2>1, DaysOfMonths DEF LastOf
<1>4. ended \in SubRecord /\ new \in SubRecord
  BY <1>2, <1>3 DEF SubRecord, Sells
<1>5. subs' = Append(rows, new)
  BY <1>0, <1>1, <1>2, <1>3
<1> HIDE DEF k, ended, new
<1>6. /\ rows \in Seq(SubRecord) /\ Len(rows) = n
      /\ \A i \in 1 .. n : rows[i] = IF i = k THEN ended ELSE subs[i]
  BY <1>1, <1>2, <1>4, ExceptSeq
<1> HIDE DEF rows
<1>7. /\ subs' \in Seq(SubRecord) /\ Len(subs') = n + 1
      /\ \A i \in 1 .. n : subs'[i] = rows[i]
      /\ subs'[n + 1] = new
  BY <1>4, <1>5, <1>6, AppendProperties
<1>8. DOMAIN subs' = 1 .. (n + 1)
  BY <1>1, <1>7
<1> QED
  BY <1>0, <1>1, <1>2, <1>6, <1>7, <1>8 DEF k, ended, new

LEMMA SwitchKeeps ==
  ASSUME RowsInv, RestTypes', NEW plan \in Plans, NEW price \in Prices, Switch(plan, price),
         UNCHANGED <<standing, expense, date>>
  PROVE  RowsInv'
<1> DEFINE k == Latest(CurrentSubs)
           n == Len(subs)
           first == FirstOf(ThisMonth + 1)
<1>1. /\ k \in CurrentSubs /\ k \in 1 .. n
      /\ subs' \in Seq(SubRecord) /\ Len(subs') = n + 1 /\ n + 1 <= MaxSubs
      /\ subs'[n + 1] = Sells(plan, price, first)
      /\ \A i \in 1 .. n : i # k => subs'[i] = subs[i]
      /\ subs'[k] = [subs[k] EXCEPT !.until = LastOf(ThisMonth)]
      /\ DOMAIN subs = 1 .. n /\ n \in Nat /\ DOMAIN subs' = 1 .. (n + 1)
      /\ standing \in Paying
  BY SwitchRows
<1>0. /\ SubscriptionsTypeOK /\ RowsInOrder /\ RowsByMonth /\ RowToday /\ LastRunsOn
      /\ standing \in Live
  BY <1>1 DEF RowsInv, Paying, Live
<1>2. /\ date \in Nat /\ ThisMonth \in Nat /\ date <= LastOf(ThisMonth) /\ first \in Nat
      /\ LastOf(ThisMonth) \in Nat /\ LastOf(ThisMonth) + 1 = first /\ Never \in Nat
  <2>1. date \in Nat /\ ThisMonth \in Nat /\ date <= LastOf(ThisMonth) /\ Never \in Nat
        /\ ThisMonth + 1 \in Nat
    BY <1>0, Calendar
  <2> QED
    BY <2>1, DaysOfMonths
<1>3. \A i \in 1 .. n : subs[i] \in SubRecord /\ subs[i].from \in Nat /\ subs[i].until \in Nat
  BY <1>0, <1>1, RowTypes
<1>4. \A i \in 1 .. n : subs[i].from <= first /\ subs[i].active
  BY <1>0, <1>1, <1>2, <1>3 DEF RowsByMonth
<1> HIDE DEF k, n, first
<1>5. /\ \A i \in 1 .. n : subs'[i].from = subs[i].from /\ subs'[i].active = subs[i].active
      /\ \A i \in 1 .. n : i # k => subs'[i].until = subs[i].until
      /\ subs'[k].until = LastOf(ThisMonth)
      /\ subs'[n + 1].from = first /\ subs'[n + 1].active = TRUE /\ subs'[n + 1].until = Never
  <2>1. subs[k] \in SubRecord
    BY <1>1, <1>3
  <2>2. /\ subs'[k].from = subs[k].from /\ subs'[k].active = subs[k].active
        /\ subs'[k].until = LastOf(ThisMonth)
    BY <1>1, <2>1 DEF SubRecord
  <2>3. subs'[n + 1].from = first /\ subs'[n + 1].active = TRUE /\ subs'[n + 1].until = Never
    BY <1>1 DEF Sells
  <2> QED
    BY <1>1, <2>2, <2>3
<1>6. SubscriptionsTypeOK'
  BY <1>1 DEF RowsInv, SubscriptionsTypeOK, RestTypes
<1>7. RowsInOrder'
  <2> SUFFICES ASSUME NEW i \in 1 .. (n + 1), NEW j \in 1 .. (n + 1), i <= j
               PROVE  subs'[i].from <= subs'[j].from
    BY <1>1 DEF RowsInOrder
  <2>1. CASE j \in 1 .. n
    BY <1>0, <1>1, <1>5, <2>1 DEF RowsInOrder
  <2>2. CASE j = n + 1 /\ i \in 1 .. n
    BY <1>4, <1>5, <2>2
  <2>3. CASE j = n + 1 /\ i = n + 1
    BY <1>2, <1>5, <2>3
  <2> QED
    BY <1>1, <2>1, <2>2, <2>3
<1>8. RowsByMonth'
  <2> SUFFICES ASSUME NEW i \in 1 .. (n + 1)
               PROVE  /\ subs'[i].active
                      /\ subs'[i].from <= date \/ subs'[i].from = first
                      /\ subs'[i].until = Never \/ \E m \in Nat : subs'[i].until = LastOf(m)
    BY <1>1 DEF RowsByMonth, ThisMonth, first
  <2>1. CASE i = n + 1
    BY <1>5, <2>1
  <2>2. CASE i = k
    <3>1. k \in 1 .. n /\ (subs[k].from <= date \/ subs[k].from = first)
      BY <1>0, <1>1 DEF RowsByMonth, first
    <3> QED
      BY <1>2, <1>4, <1>5, <2>2, <3>1
  <2>3. CASE i \in 1 .. n /\ i # k
    BY <1>0, <1>1, <1>4, <1>5, <2>3 DEF RowsByMonth, first
  <2> QED
    BY <1>1, <2>1, <2>2, <2>3
<1>9. RowToday'
  <2>1. subs[k].from <= date
    BY <1>1 DEF CurrentSubs
  <2>2. k \in DOMAIN subs' /\ subs'[k].from <= date /\ subs'[k].until >= date
    BY <1>1, <1>2, <1>3, <1>5, <2>1
  <2> QED
    BY <2>2 DEF RowToday
<1>10. LastRunsOn'
  <2>1. subs' # << >> /\ Len(subs') = n + 1
    BY <1>1
  <2> QED
    BY <1>2, <1>5, <2>1 DEF LastRunsOn, ThisMonth, first
<1>11. ExpenseByMonth' /\ Prospective' /\ standing' \notin {"none", "prospect"}
  BY <1>1 DEF RowsInv, ExpenseByMonth, Prospective, Paying
<1> QED
  BY <1>6, <1>7, <1>8, <1>9, <1>10, <1>11 DEF RowsInv

\* An expense that begins with a month, and ends with one or not.
LEMMA ExpenseKeeps ==
  ASSUME RowsInv, RestTypes', UNCHANGED <<standing, subs, date>>,
         expense' \in [from : Nat, until : Nat], ExpenseByMonth'
  PROVE  RowsInv'
<1>1. SubscriptionsTypeOK'
  BY DEF RowsInv, SubscriptionsTypeOK, RestTypes
<1> QED
  BY <1>1 DEF RowsInv, RowsInOrder, RowsByMonth, RowToday, LastRunsOn, Prospective, ThisMonth

\* The first subscription, and its beginning when the tenant is activated.
LEMMA CreateKeeps ==
  ASSUME RowsInv, RestTypes', NEW plan \in Plans, NEW price \in Prices,
         CreateTenant(plan, price)
  PROVE  RowsInv'
<1>0. /\ SubscriptionsTypeOK /\ subs = << >> /\ standing' = "prospect"
      /\ UNCHANGED <<expense, date>>
      /\ subs' = Append(subs, Sells(plan, price, date))
  BY DEF RowsInv, CreateTenant
<1>1. /\ date \in Nat /\ Never \in Nat /\ ThisMonth \in Nat /\ date <= LastOf(ThisMonth)
      /\ LastOf(ThisMonth) < Never /\ ThisMonth + 1 \in Nat
  BY <1>0, Calendar
<1>2. Sells(plan, price, date) \in SubRecord
  BY <1>1 DEF Sells, SubRecord
<1>3. /\ subs' \in Seq(SubRecord) /\ Len(subs') = 1 /\ DOMAIN subs' = {1}
      /\ subs'[1] = Sells(plan, price, date)
  BY <1>0, <1>2
<1>4. subs'[1].from = date /\ subs'[1].until = Never /\ subs'[1].active = TRUE
  BY <1>3 DEF Sells
<1>5. /\ LastOf(ThisMonth) \in Nat /\ LastOf(ThisMonth) + 1 = FirstOf(ThisMonth + 1)
  BY <1>1, DaysOfMonths
<1>6. SubscriptionsTypeOK'
  <2>1. Len(subs') <= MaxSubs
    BY <1>3, SubscriptionsAssumption
  <2> QED
    BY <1>0, <1>3, <2>1 DEF SubscriptionsTypeOK, RestTypes
<1>7. RowsInOrder' /\ Prospective' /\ ExpenseByMonth'
  BY <1>0, <1>1, <1>3, <1>4 DEF RowsInv, RowsInOrder, Prospective, ExpenseByMonth
<1>8. RowsByMonth'
  BY <1>0, <1>1, <1>3, <1>4 DEF RowsByMonth
<1>9. RowToday' /\ LastRunsOn'
  <2>1. date <= FirstOf(ThisMonth + 1) /\ Never >= date
    BY <1>1, <1>5
  <2>2. subs' # << >>
    BY <1>3
  <2> QED
    BY <1>0, <1>1, <1>3, <1>4, <2>1, <2>2 DEF RowToday, LastRunsOn, ThisMonth
<1> QED
  BY <1>0, <1>6, <1>7, <1>8, <1>9 DEF RowsInv

LEMMA ActivateKeeps ==
  ASSUME RowsInv, RestTypes', ActivateTenant
  PROVE  RowsInv'
<1>0. /\ SubscriptionsTypeOK /\ standing = "prospect" /\ standing' = "active"
      /\ UNCHANGED <<expense, date>> /\ Len(subs) = 1 /\ DOMAIN subs = {1}
      /\ subs' = [subs EXCEPT ![Min(OpenSubs)].from = date]
      /\ subs[1] \in SubRecord /\ subs \in Seq(SubRecord)
  <2>1. SubscriptionsTypeOK /\ standing = "prospect" /\ Len(subs) = 1
    BY DEF RowsInv, ActivateTenant, Prospective
  <2>2. DOMAIN subs = {1} /\ subs[1] \in SubRecord /\ subs \in Seq(SubRecord)
    BY <2>1, RowTypes DEF SubscriptionsTypeOK
  <2> QED
    BY <2>1, <2>2 DEF ActivateTenant
<1>1. /\ date \in Nat /\ Never \in Nat /\ ThisMonth \in Nat /\ date <= LastOf(ThisMonth)
      /\ LastOf(ThisMonth) < Never /\ ThisMonth + 1 \in Nat
  BY <1>0, Calendar
<1>2. subs[1].active /\ subs[1].until = Never
  BY <1>0 DEF RowsInv, Live, RowsByMonth, LastRunsOn
<1>3. OpenSubs = {1}
  BY <1>0, <1>2 DEF OpenSubs, Active
<1>4. Min(OpenSubs) = 1
  <2>1. Min({1}) = 1
    BY DEF Min
  <2> QED
    BY <1>3, <2>1, Zenon
<1>5. subs' = [subs EXCEPT ![1] = [subs[1] EXCEPT !.from = date]]
      /\ [subs[1] EXCEPT !.from = date] \in SubRecord
  BY <1>0, <1>1, <1>4 DEF SubRecord
<1>6. /\ subs' \in Seq(SubRecord) /\ Len(subs') = 1 /\ DOMAIN subs' = {1}
      /\ subs'[1] = [subs[1] EXCEPT !.from = date]
  <2>0. PICK rec : rec = [subs[1] EXCEPT !.from = date]
    OBVIOUS
  <2>1. rec \in SubRecord /\ subs' = [subs EXCEPT ![1] = rec]
    BY <1>5, <2>0
  <2>2. 1 \in 1 .. Len(subs)
    BY <1>0
  <2>3. subs \in Seq(SubRecord)
    BY <1>0
  <2>4. /\ subs' \in Seq(SubRecord) /\ Len(subs') = Len(subs)
        /\ \A i \in 1 .. Len(subs) : subs'[i] = IF i = 1 THEN rec ELSE subs[i]
    BY <2>1, <2>2, <2>3, ExceptSeq
  <2>5. subs'[1] = rec /\ Len(subs') = 1
    BY <1>0, <2>2, <2>4
  <2>6. DOMAIN subs' = {1}
    BY <2>4, <2>5
  <2> QED
    BY <2>0, <2>4, <2>5, <2>6
<1>7. subs'[1].from = date /\ subs'[1].until = Never /\ subs'[1].active = TRUE
  BY <1>0, <1>2, <1>6 DEF SubRecord
<1>8. /\ LastOf(ThisMonth) \in Nat /\ LastOf(ThisMonth) + 1 = FirstOf(ThisMonth + 1)
  BY <1>1, DaysOfMonths
<1>9. SubscriptionsTypeOK'
  BY <1>0, <1>6 DEF SubscriptionsTypeOK, RestTypes
<1>10. RowsInOrder' /\ Prospective' /\ ExpenseByMonth'
  BY <1>0, <1>1, <1>6, <1>7 DEF RowsInv, RowsInOrder, Prospective, ExpenseByMonth
<1>11. RowsByMonth'
  BY <1>0, <1>1, <1>6, <1>7 DEF RowsByMonth
<1>12. RowToday' /\ LastRunsOn'
  <2>1. date <= FirstOf(ThisMonth + 1) /\ Never >= date
    BY <1>1, <1>8
  <2>2. date <= date /\ 1 \in DOMAIN subs'
    BY <1>1, <1>6
  <2>4. subs' # << >>
    BY <1>6
  <2>3. RowToday'
    BY <1>0, <1>7, <2>1, <2>2 DEF RowToday
  <2> QED
    BY <1>0, <1>6, <1>7, <2>1, <2>3, <2>4 DEF LastRunsOn, ThisMonth
<1> QED
  BY <1>0, <1>9, <1>10, <1>11, <1>12 DEF RowsInv

LEMMA OffboardKeeps ==
  ASSUME RowsInv, RestTypes', OffboardTenant
  PROVE  RowsInv'
<1>0. /\ SubscriptionsTypeOK /\ standing' = "offboarded" /\ UNCHANGED <<expense, date>>
      /\ Len(subs) \in Nat /\ DOMAIN subs = 1 .. Len(subs)
      /\ \A i \in DOMAIN subs : subs[i] \in SubRecord
      /\ LastOf(ThisMonth) \in Nat
  <2>1. SubscriptionsTypeOK
    BY DEF RowsInv
  <2>2. ThisMonth \in Nat
    BY <2>1, Calendar
  <2> QED
    BY <2>1, <2>2, RowTypes, DaysOfMonths DEF OffboardTenant
<1> DEFINE Left(i) == IF subs[i].active /\ subs[i].until > date
             THEN [subs[i] EXCEPT !.active = FALSE,
                     !.until = IF subs[i].until = Never THEN LastOf(ThisMonth)
                               ELSE subs[i].until]
             ELSE subs[i]
<1>1. subs' = [i \in DOMAIN subs |-> Left(i)]
  BY <1>0 DEF OffboardTenant
<1>2. ASSUME NEW i \in DOMAIN subs
      PROVE  Left(i) \in SubRecord /\ Left(i).from = subs[i].from
  <2> DEFINE until == IF subs[i].until = Never THEN LastOf(ThisMonth) ELSE subs[i].until
  <2>1. until \in Nat /\ subs[i] \in SubRecord
    BY <1>0 DEF SubRecord
  <2> HIDE DEF until
  <2>2. [subs[i] EXCEPT !.active = FALSE, !.until = until] \in SubRecord
        /\ [subs[i] EXCEPT !.active = FALSE, !.until = until].from = subs[i].from
    BY <2>1 DEF SubRecord
  <2> QED
    BY <2>1, <2>2 DEF until
<1> HIDE DEF Left
<1>3. /\ subs' \in [1 .. Len(subs) -> SubRecord] /\ DOMAIN subs' = DOMAIN subs
      /\ \A i \in DOMAIN subs : subs'[i].from = subs[i].from
  BY <1>0, <1>1, <1>2
<1>4. subs' \in Seq(SubRecord) /\ Len(subs') = Len(subs)
  BY <1>0, <1>3
<1>5. SubscriptionsTypeOK'
  BY <1>0, <1>4 DEF SubscriptionsTypeOK, RestTypes
<1> QED
  BY <1>0, <1>3, <1>5 DEF RowsInv, RowsInOrder, ExpenseByMonth, Prospective, Live

\* The next day: a row that ran until the last day of a month is followed by the
\* last row, which runs on.
LEMMA NextDateKeeps ==
  ASSUME RowsInv, NextDate
  PROVE  RowsInv'
<1>0. /\ SubscriptionsTypeOK /\ date \in Dates /\ date' = date + 1 /\ date' \in Dates
      /\ UNCHANGED <<standing, subs, expense>>
  BY DEF RowsInv, NextDate, SubscriptionsTypeOK
<1>1. SubscriptionsTypeOK'
  BY <1>0 DEF NextDate, SubscriptionsTypeOK
<1>2. /\ date \in Nat /\ ThisMonth \in Nat /\ ThisMonth + 1 \in Nat /\ ThisMonth \in Months
      /\ date <= LastOf(ThisMonth) /\ date' \in Nat /\ LastOf(ThisMonth) < Never /\ Never \in Nat
      /\ FirstOf(ThisMonth + 1) \in Nat /\ LastOf(ThisMonth) \in Nat
      /\ LastOf(ThisMonth) + 1 = FirstOf(ThisMonth + 1)
      /\ date' <= FirstOf(ThisMonth + 1)
  <2>1. /\ date \in Nat /\ ThisMonth \in Nat /\ ThisMonth + 1 \in Nat /\ ThisMonth \in Months
        /\ date <= LastOf(ThisMonth) /\ LastOf(ThisMonth) < Never /\ Never \in Nat
    BY <1>0, Calendar
  <2> QED
    BY <1>0, <2>1, DaysOfMonths
<1>3. \/ ThisMonth' = ThisMonth /\ date < LastOf(ThisMonth)
      \/ /\ ThisMonth' = ThisMonth + 1 /\ date' = FirstOf(ThisMonth + 1)
         /\ date = LastOf(ThisMonth)
  BY <1>0, DayAfter DEF ThisMonth
<1>4. /\ Len(subs) \in Nat /\ DOMAIN subs = 1 .. Len(subs)
      /\ \A i \in DOMAIN subs : subs[i].from \in Nat /\ subs[i].until \in Nat
  BY <1>0, RowTypes
<1>5. RowsInOrder' /\ ExpenseByMonth' /\ (standing' = "none" => subs' = << >>)
  BY <1>0 DEF RowsInv, RowsInOrder, ExpenseByMonth
<1>6. Prospective'
  <2> SUFFICES ASSUME standing = "prospect" PROVE Len(subs) = 1 /\ subs[1].from <= date'
    BY <1>0 DEF Prospective
  <2>1. Len(subs) = 1 /\ subs[1].from <= date
    BY DEF RowsInv, Prospective
  <2> QED
    BY <1>0, <1>2, <1>4, <2>1
<1>7. ASSUME standing \in Live PROVE RowsByMonth' /\ RowToday' /\ LastRunsOn'
  <2>0. RowsByMonth /\ RowToday /\ LastRunsOn
    BY <1>7 DEF RowsInv
  <2>1. FirstOf(ThisMonth + 1) <= FirstOf(ThisMonth' + 1)
    <3>1. CASE ThisMonth' = ThisMonth
      BY <1>2, <3>1
    <3>2. CASE ThisMonth' = ThisMonth + 1
      <4>1. ThisMonth + 1 + 1 \in Nat
        BY <1>2
      <4> QED
        BY <1>2, <3>2, <4>1, DaysOfMonths
    <3> QED
      BY <1>3, <3>1, <3>2
  <2>2. RowsByMonth'
    <3> SUFFICES ASSUME NEW i \in DOMAIN subs
                 PROVE  /\ subs[i].active
                        /\ subs[i].from <= date' \/ subs[i].from = FirstOf(ThisMonth' + 1)
                        /\ subs[i].until = Never \/ \E m \in Nat : subs[i].until = LastOf(m)
      BY <1>0 DEF RowsByMonth
    <3>1. /\ subs[i].active
          /\ subs[i].from <= date \/ subs[i].from = FirstOf(ThisMonth + 1)
          /\ subs[i].until = Never \/ \E m \in Nat : subs[i].until = LastOf(m)
          /\ subs[i].from \in Nat
      BY <1>4, <2>0 DEF RowsByMonth
    <3> QED
      BY <1>0, <1>2, <1>3, <3>1
  <2>3. LastRunsOn'
    <3>1. /\ subs # << >> /\ subs[Len(subs)].until = Never
          /\ subs[Len(subs)].from <= FirstOf(ThisMonth + 1) /\ Len(subs) \in DOMAIN subs
      BY <2>0, <1>4 DEF LastRunsOn
    <3>2. FirstOf(ThisMonth' + 1) \in Nat
      <4>1. ThisMonth' + 1 \in Nat
        BY <1>2, <1>3
      <4> QED
        BY <4>1, DaysOfMonths
    <3>3. subs[Len(subs)].from <= FirstOf(ThisMonth' + 1)
      BY <1>2, <1>4, <2>1, <3>1, <3>2
    <3> QED
      BY <1>0, <3>1, <3>3 DEF LastRunsOn
  <2>4. RowToday'
    <3>1. PICK i \in DOMAIN subs : subs[i].from <= date /\ subs[i].until >= date
      BY <2>0 DEF RowToday
    <3>2. /\ Len(subs) \in DOMAIN subs /\ subs[Len(subs)].until = Never
          /\ subs[Len(subs)].from <= FirstOf(ThisMonth + 1)
      BY <2>0, <1>4 DEF LastRunsOn
    <3>3. CASE date = LastOf(ThisMonth)
      <4>1. subs[Len(subs)].from <= date' /\ subs[Len(subs)].until >= date'
        BY <1>0, <1>2, <1>4, <3>2, <3>3
      <4> QED
        BY <1>0, <3>2, <4>1 DEF RowToday
    <3>4. CASE date < LastOf(ThisMonth) /\ subs[i].until = Never
      <4>1. subs[i].from <= date' /\ subs[i].until >= date'
        BY <1>0, <1>2, <1>4, <3>1, <3>4
      <4> QED
        BY <1>0, <3>1, <4>1 DEF RowToday
    <3>5. CASE date < LastOf(ThisMonth) /\ subs[i].until # Never
      <4>1. PICK m \in Nat : subs[i].until = LastOf(m)
        BY <2>0, <3>1, <3>5 DEF RowsByMonth
      <4>2. LastOf(m) >= LastOf(ThisMonth)
        <5>1. m >= ThisMonth
          <6> SUFFICES ASSUME m < ThisMonth PROVE FALSE
            BY <1>2, <4>1
          <6>1. LastOf(m) < FirstOf(ThisMonth) /\ FirstOf(ThisMonth) <= date
                /\ FirstOf(ThisMonth) \in Nat
            BY <1>0, <1>2, <4>1, DaysOfMonths, Calendar
          <6> QED
            BY <1>2, <1>4, <3>1, <4>1, <6>1
        <5>2. CASE m = ThisMonth
          BY <1>2, <5>2
        <5>3. CASE ThisMonth < m
          BY <1>2, <4>1, <5>3, DaysOfMonths
        <5> QED
          BY <1>2, <4>1, <5>1, <5>2, <5>3
      <4>3. subs[i].from <= date' /\ subs[i].until >= date'
        BY <1>0, <1>2, <1>4, <3>1, <3>5, <4>1, <4>2
      <4> QED
        BY <1>0, <3>1, <4>3 DEF RowToday
    <3> QED
      BY <1>2, <1>3, <3>3, <3>4, <3>5
  <2> QED
    BY <2>2, <2>3, <2>4
<1> QED
  BY <1>0, <1>1, <1>5, <1>6, <1>7 DEF RowsInv

-----------------------------------------------------------------------------
(* Every step keeps the rows.                                              *)

\* What is built is a draft.
LEMMA BuiltIsDraft ==
  ASSUME SubscriptionsTypeOK, RowsInOrder, NEW m \in Months, Buildable(m)
  PROVE  Built(m) \in DraftRows /\ Built(m).status = "draft"
<1>1. /\ BillingSubs(m) \in SUBSET DOMAIN subs /\ BillingSubs(m) # {}
  BY DEF BillingSubs, Buildable
<1>2. subs[Latest(BillingSubs(m))] \in SubRecord
  BY <1>1, LatestRow
<1>3. ExpenseIn(m) \in BOOLEAN
  BY DEF ExpenseIn
<1>4. PICK sub \in SubRecord : sub = subs[Latest(BillingSubs(m))]
  BY <1>2
<1>5. Built(m) = [status |-> "draft", plan |-> sub.plan, price |-> sub.price,
                  expense |-> ExpenseIn(m)]
  BY <1>4 DEF Built
<1> QED
  BY <1>3, <1>4, <1>5 DEF DraftRows, SubRecord

\* The rows of one that has none, and of a request that does nothing.
LEMMA NothingYet ==
  /\ NoDraft \in DraftRows /\ NoDraft.status = "none"
  /\ Idle \in EditorRows
  /\ Idle.at = "idle" /\ Idle.todo = {} /\ Idle.gone = {} /\ Idle.holds = {}
<1>1. NoDraft \in DraftRows /\ NoDraft.status = "none"
  BY DEF NoDraft, DraftRows, Plans, Starter
<1> QED
  BY <1>1 DEF Idle, EditorRows

LEMMA RowsInitial == SubscriptionsInit => RowsInv
<1> SUFFICES ASSUME SubscriptionsInit PROVE RowsInv
  OBVIOUS
<1>1. /\ LastMonth \in Nat /\ DaysInMonth \in Nat \ {0} /\ MaxSubs \in Nat
      /\ MaxEdits \in Nat /\ MaxLosses \in Nat
  BY SubscriptionsAssumption
<1>2. Never \in Nat /\ Never = FirstOf(LastMonth + 2) /\ LastMonth + 2 \in Nat
  BY NeverFacts
<1>3. 0 \in Dates
  <2>1. (LastMonth + 1) * DaysInMonth \in Nat \ {0}
    BY <1>1
  <2> QED
    BY <2>1 DEF Dates
<1>4. /\ subs \in Seq(SubRecord) /\ Len(subs) <= MaxSubs /\ DOMAIN subs = {}
      /\ expense \in [from : Nat, until : Nat]
  BY <1>1, <1>2 DEF SubscriptionsInit, NoExpense
<1>5. catalogue \in [Plans -> Prices]
  BY LeastPrice DEF SubscriptionsInit
<1>6. NoDraft \in DraftRows /\ Idle \in EditorRows
  BY NothingYet
<1>7. /\ monthDraft \in [Months -> DraftRows] /\ generating \in [Months -> DraftRows]
      /\ editor \in [Editors -> EditorRows]
  BY <1>6 DEF SubscriptionsInit
<1>8. SubscriptionsTypeOK
  <2>1. /\ standing = "none" /\ flag = [m \in Months |-> "none"] /\ inFlight = {}
        /\ outdated = {} /\ moved = FALSE /\ edits = 0 /\ losses = 0 /\ date = 0
    BY DEF SubscriptionsInit
  <2>2. edits \in 0 .. MaxEdits /\ losses \in 0 .. MaxLosses
    BY <1>1, <2>1
  <2>3. RestTypes
    BY <1>5, <1>7, <2>1, <2>2 DEF RestTypes
  <2> QED
    BY <1>3, <1>4, <2>1, <2>3, TypesInTwo
<1>9. ExpenseByMonth
  BY <1>2 DEF SubscriptionsInit, NoExpense, ExpenseByMonth
<1> QED
  BY <1>4, <1>8, <1>9 DEF SubscriptionsInit, RowsInv, RowsInOrder, Prospective, Live

LEMMA EditorWritten ==
  ASSUME editor \in [Editors -> EditorRows], NEW e \in Editors, NEW todo \in SUBSET Months
  PROVE  /\ [editor EXCEPT ![e] = Idle] \in [Editors -> EditorRows]
         /\ [editor EXCEPT ![e] = [Idle EXCEPT !.at = "due"]] \in [Editors -> EditorRows]
         /\ [editor EXCEPT ![e] = [Idle EXCEPT !.at = "loop", !.todo = todo]]
              \in [Editors -> EditorRows]
<1>1. PICK idle \in EditorRows : idle = Idle
  BY NothingYet
<1>2. /\ [idle EXCEPT !.at = "due"] \in EditorRows
      /\ [idle EXCEPT !.at = "loop", !.todo = todo] \in EditorRows
  BY <1>1 DEF EditorRows
<1> QED
  BY <1>1, <1>2

\* A draft that leaves is one less to rebuild.
LEMMA LeavingTypes ==
  ASSUME editor \in [Editors -> EditorRows],
         NEW m \in Months, NEW to, DraftLeaves(m, to)
  PROVE  /\ editor' \in [Editors -> EditorRows]
         /\ \A e \in Editors : /\ editor'[e].at = editor[e].at
                               /\ editor'[e].todo = editor[e].todo \ {m}
                               /\ editor'[e].holds = editor[e].holds
                               /\ editor'[e].row = editor[e].row
<1>1. editor' = [e \in Editors |->
        [editor[e] EXCEPT !.todo = @ \ {m}, !.gone = @ \cup (editor[e].todo \cap {m})]]
  BY DEF DraftLeaves
<1>2. ASSUME NEW e \in Editors
      PROVE  /\ editor'[e] \in EditorRows
             /\ editor'[e].at = editor[e].at /\ editor'[e].todo = editor[e].todo \ {m}
             /\ editor'[e].holds = editor[e].holds /\ editor'[e].row = editor[e].row
  <2>1. PICK was \in EditorRows : was = editor[e]
    OBVIOUS
  <2>2. editor'[e] = [was EXCEPT !.todo = was.todo \ {m},
                                 !.gone = was.gone \cup (was.todo \cap {m})]
    BY <1>1, <2>1
  <2>3. was.todo \ {m} \in SUBSET Months /\ was.gone \cup (was.todo \cap {m}) \in SUBSET Months
    BY <2>1 DEF EditorRows
  <2> QED
    BY <2>1, <2>2, <2>3 DEF EditorRows
<1> QED
  BY <1>1, <1>2

\* The lock of a draft, and what is read behind it.
LEMMA LockedRow ==
  ASSUME editor \in [Editors -> EditorRows], NEW e \in Editors, NEW m \in Months,
         Built(m) \in DraftRows,
         editor' = [editor EXCEPT ![e].todo = @ \ {m}, ![e].holds = {m},
                                  ![e].row = Built(m)]
  PROVE  /\ editor' \in [Editors -> EditorRows]
         /\ \A f \in Editors : f # e => editor'[f] = editor[f]
         /\ editor'[e].at = editor[e].at /\ editor'[e].todo = editor[e].todo \ {m}
         /\ editor'[e].holds = {m} /\ editor'[e].row = Built(m)
<1>1. PICK was \in EditorRows : was = editor[e]
  OBVIOUS
<1>2. PICK built \in DraftRows : built = Built(m)
  OBVIOUS
<1>3. PICK row : row = [was EXCEPT !.todo = was.todo \ {m}, !.holds = {m}, !.row = built]
  OBVIOUS
<1>4. /\ row \in EditorRows /\ row.at = was.at /\ row.todo = was.todo \ {m}
      /\ row.holds = {m} /\ row.row = built
  BY <1>1, <1>2, <1>3 DEF EditorRows
<1>5. editor' = [editor EXCEPT ![e] = row]
  BY <1>1, <1>2, <1>3
<1> QED
  BY <1>1, <1>2, <1>4, <1>5

\* Its end.
LEMMA UnlockedRow ==
  ASSUME editor \in [Editors -> EditorRows], NEW e \in Editors, NEW m \in Months,
         WriteDraft(e, m)
  PROVE  /\ editor' \in [Editors -> EditorRows]
         /\ \A f \in Editors : f # e => editor'[f] = editor[f]
         /\ editor'[e].holds = {} /\ editor'[e].todo = editor[e].todo
         /\ editor'[e].at \in {"idle", editor[e].at}
         /\ editor'[e].at = "idle" => editor'[e].todo = {} \/ editor[e].at = "idle"
<1>1. PICK was \in EditorRows : was = editor[e]
  OBVIOUS
<1>2. PICK row : row = IF was.todo = {} /\ was.gone = {} THEN Idle
                       ELSE [was EXCEPT !.holds = {}, !.row = NoDraft]
  OBVIOUS
<1>3. /\ row \in EditorRows /\ row.holds = {} /\ row.todo = was.todo
      /\ row.at \in {"idle", was.at} /\ (row.at = "idle" => row.todo = {} \/ was.at = "idle")
  <2>1. CASE was.todo = {} /\ was.gone = {}
    BY <1>2, <2>1, NothingYet
  <2>2. CASE ~(was.todo = {} /\ was.gone = {})
    BY <1>1, <1>2, <2>2, NothingYet DEF EditorRows
  <2> QED
    BY <2>1, <2>2
<1>4. editor' = [editor EXCEPT ![e] = row]
  BY <1>1, <1>2 DEF WriteDraft
<1> QED
  BY <1>1, <1>3, <1>4

\* The steps of a rebuild.
LEMMA RebuildTypes ==
  ASSUME RowsInv, NEW e \in Editors,
         ListDrafts(e) \/ RebuildRefused(e) \/ RebuildLost(e)
           \/ \E m \in Months : LockDraft(e, m) \/ WriteDraft(e, m)
  PROVE  RestTypes'
<1>0. /\ RestTypes /\ SubscriptionsTypeOK /\ RowsInOrder
      /\ monthDraft \in [Months -> DraftRows] /\ outdated \subseteq Months
      /\ editor \in [Editors -> EditorRows] /\ Drafts \in SUBSET Months
      /\ editor[e].todo \subseteq Months /\ editor[e].holds \subseteq Months
      /\ editor[e].row \in DraftRows
  BY DEF RowsInv, SubscriptionsTypeOK, RestTypes, Drafts, EditorRows
<1>1. CASE ListDrafts(e)
  <2>1. editor' \in [Editors -> EditorRows]
    <3>1. CASE Drafts = {}
      BY <1>0, <1>1, <3>1, EditorWritten DEF ListDrafts
    <3>2. CASE Drafts # {}
      BY <1>0, <1>1, <3>2, EditorWritten DEF ListDrafts
    <3> QED
      BY <3>1, <3>2
  <2> QED
    BY <1>0, <1>1, <2>1 DEF ListDrafts, RestTypes
<1>2. CASE RebuildRefused(e)
  <2>1. editor' \in [Editors -> EditorRows]
    BY <1>0, <1>2, EditorWritten DEF RebuildRefused
  <2> QED
    BY <1>0, <1>2, <2>1 DEF RebuildRefused, RestTypes
<1>3. CASE RebuildLost(e)
  <2>1. editor' \in [Editors -> EditorRows] /\ outdated' \subseteq Months
    BY <1>0, <1>3, EditorWritten DEF RebuildLost
  <2>2. losses' \in 0 .. MaxLosses
    BY <1>0, <1>3, SubscriptionsAssumption DEF RebuildLost, RestTypes
  <2> QED
    BY <1>0, <1>3, <2>1, <2>2 DEF RebuildLost, RestTypes
<1>4. ASSUME NEW m \in Months, LockDraft(e, m) PROVE RestTypes'
  <2>1. Built(m) \in DraftRows
    BY <1>0, <1>4, BuiltIsDraft DEF LockDraft, TakeDraft
  <2>2. editor' \in [Editors -> EditorRows]
    BY <1>0, <1>4, <2>1, LockedRow DEF LockDraft, TakeDraft
  <2> QED
    BY <1>0, <1>4, <2>2 DEF LockDraft, TakeDraft, RestTypes
<1>5. ASSUME NEW m \in Months, WriteDraft(e, m) PROVE RestTypes'
  <2>1. editor' \in [Editors -> EditorRows]
    BY <1>0, <1>5, UnlockedRow
  <2>2. monthDraft' \in [Months -> DraftRows]
    BY <1>0, <1>5 DEF WriteDraft
  <2> QED
    BY <1>0, <1>5, <2>1, <2>2 DEF WriteDraft, RestTypes
<1> QED
  BY <1>1, <1>2, <1>3, <1>4, <1>5

\* What a step writes beside the rows, the expense and the day has its type.
LEMMA RestStep ==
  ASSUME RowsInv, SubscriptionsNext
  PROVE  RestTypes'
<1>0. /\ RestTypes /\ SubscriptionsTypeOK /\ RowsInOrder
      /\ monthDraft \in [Months -> DraftRows] /\ ThisMonth \in Months
      /\ generating \in [Months -> DraftRows] /\ editor \in [Editors -> EditorRows]
      /\ DraftDue \in Tasks /\ \A m \in Months : MarkDue(m) \in Tasks
      /\ Drafts \subseteq Months /\ Generating \subseteq Months
  BY Calendar DEF RowsInv, SubscriptionsTypeOK, RestTypes, Tasks, Drafts, Generating
<1>1. ASSUME Edit PROVE edits' \in 0 .. MaxEdits
  BY <1>0, <1>1, SubscriptionsAssumption DEF RestTypes, Edit
<1>a. ASSUME losses < MaxLosses, losses' = losses + 1 PROVE losses' \in 0 .. MaxLosses
  BY <1>0, <1>a, SubscriptionsAssumption DEF RestTypes
<1>b. ASSUME NEW e \in Editors, EditedBy(e)
      PROVE  editor' \in [Editors -> EditorRows] /\ outdated' \subseteq Months
  BY <1>0, <1>b, EditorWritten DEF EditedBy, RestTypes
<1>c. ASSUME NEW m \in Months, Buildable(m), ReadFor(m)
      PROVE  generating' \in [Months -> DraftRows] /\ outdated' \subseteq Months
  BY <1>0, <1>c, BuiltIsDraft DEF ReadFor, RestTypes
<1>2. ASSUME NEW plan \in Plans, NEW price \in Prices, CreateTenant(plan, price)
      PROVE  RestTypes'
  BY <1>0, <1>2 DEF CreateTenant, RestTypes
<1>3. ASSUME NEW plan \in Plans, NEW price \in Prices, ChangePlan(plan, price)
      PROVE  RestTypes'
  BY <1>0, <1>1, <1>3 DEF ChangePlan, Switch, SwitchAt, RestTypes
<1>4. ASSUME NEW plan \in Plans, NEW price \in Prices, UpdatePlan(plan, price)
      PROVE  RestTypes'
  BY <1>0, <1>1, <1>4 DEF UpdatePlan, RestTypes
<1>5. ASSUME NEW e \in Editors, NEW plan \in Plans, SetTenantPackage(e, plan) PROVE RestTypes'
  BY <1>0, <1>1, <1>b, <1>5 DEF SetTenantPackage, RestTypes
<1>6. ASSUME NEW e \in Editors, NEW price \in Prices, AdjustSubscriptionPrice(e, price)
      PROVE  RestTypes'
  BY <1>0, <1>1, <1>b, <1>6 DEF AdjustSubscriptionPrice, RestTypes
<1>7. CASE ActivateTenant
  BY <1>0, <1>7 DEF ActivateTenant, RestTypes
<1>8. CASE FirstDraft
  <2>1. generating' \in [Months -> DraftRows] /\ outdated' \subseteq Months
    BY <1>0, <1>8, <1>c DEF FirstDraft, Draftable, RestTypes
  <2> QED
    BY <1>0, <1>8, <2>1 DEF FirstDraft, RestTypes
<1>9. CASE StandingTurns
  BY <1>0, <1>1, <1>9 DEF StandingTurns, RestTypes
<1>10. CASE OffboardTenant
  BY <1>0, <1>1, <1>10 DEF OffboardTenant, RestTypes
<1>11. ASSUME NEW e \in Editors, AddExpense(e) \/ RemoveExpense(e) PROVE RestTypes'
  BY <1>0, <1>1, <1>b, <1>11 DEF AddExpense, RemoveExpense, RestTypes
<1>12. ASSUME NEW e \in Editors,
              ListDrafts(e) \/ RebuildRefused(e) \/ RebuildLost(e)
                \/ \E m \in Months : LockDraft(e, m) \/ WriteDraft(e, m)
       PROVE  RestTypes'
  BY <1>0, <1>a, <1>12, RebuildTypes
<1>13. ASSUME NEW m \in Months, GenerateDraft(m) PROVE RestTypes'
  <2>1. generating' \in [Months -> DraftRows] /\ outdated' \subseteq Months
    BY <1>0, <1>13, <1>c DEF GenerateDraft, Draftable
  <2> QED
    BY <1>0, <1>13, <2>1 DEF GenerateDraft, RestTypes
<1>14. ASSUME NEW m \in Months, InsertDraft(m) \/ GenerationLost(m) PROVE RestTypes'
  <2>1. NoDraft \in DraftRows
    BY NothingYet
  <2> QED
    BY <1>0, <1>a, <1>14, <2>1 DEF InsertDraft, GenerationLost, RestTypes
<1>15. ASSUME NEW m \in Months, NEW to \in {"issued", "none"}, DraftLeaves(m, to)
       PROVE  RestTypes'
  <2>1. [monthDraft[m] EXCEPT !.status = "issued"] \in DraftRows
    BY <1>0 DEF DraftRows
  <2>2. monthDraft' \in [Months -> DraftRows]
    BY <1>0, <1>15, <2>1, NothingYet DEF DraftLeaves
  <2>3. editor' \in [Editors -> EditorRows]
    BY <1>0, <1>15, LeavingTypes
  <2> QED
    BY <1>0, <1>1, <1>15, <2>2, <2>3 DEF DraftLeaves, RestTypes
<1>16. ASSUME NEW m \in Months,
              GraduationCheck(m) \/ DismissFlag(m) \/ MarkGraduated(m)
       PROVE  RestTypes'
  BY <1>0, <1>1, <1>16 DEF GraduationCheck, DismissFlag, MarkGraduated, RestTypes
<1>17. ASSUME NEW m \in Months, GraduateTenant(m) PROVE RestTypes'
  BY <1>0, <1>1, <1>17 DEF GraduateTenant, Switch, SwitchAt, RestTypes
<1>18. CASE NextDate
  BY <1>0, <1>18 DEF NextDate, RestTypes
<1>19. ASSUME NEW task \in Tasks, RequestLost(task) PROVE RestTypes'
  BY <1>0, <1>a, <1>19 DEF RequestLost, RestTypes
<1> QED
  BY <1>2, <1>3, <1>4, <1>5, <1>6, <1>7, <1>8, <1>9, <1>10, <1>11, <1>12, <1>13, <1>14,
     <1>15, <1>16, <1>17, <1>18, <1>19 DEF SubscriptionsNext

\* An edit of the package or the price of one row leaves when it runs.
EditsARow ==
  \E k \in DOMAIN subs, rec \in SubRecord :
    /\ rec.from = subs[k].from /\ rec.until = subs[k].until /\ rec.active = subs[k].active
    /\ subs' = [subs EXCEPT ![k] = rec]

LEMMA PackageEdits ==
  ASSUME RowsInv, NEW e \in Editors, NEW plan \in Plans, SetTenantPackage(e, plan)
  PROVE  EditsARow
<1> DEFINE k == Max(OpenSubs)
<1>1. /\ SubscriptionsTypeOK /\ OpenSubs # {} /\ OpenSubs \in SUBSET DOMAIN subs
      /\ UNCHANGED <<standing, expense, date>>
      /\ subs' = [subs EXCEPT ![k].plan = plan, ![k].price = catalogue[plan]]
      /\ catalogue[plan] \in Prices
  BY DEF RowsInv, SetTenantPackage, OpenSubs, SubscriptionsTypeOK
<1>2. /\ Len(subs) \in Nat /\ DOMAIN subs = 1 .. Len(subs)
      /\ \A i \in DOMAIN subs : subs[i] \in SubRecord
  BY <1>1, RowTypes
<1>3. k \in DOMAIN subs
  <2>1. PICK i \in OpenSubs : \A j \in OpenSubs : j <= i
    BY <1>1, <1>2, GreatestRow
  <2>2. \A j \in OpenSubs : i >= j
    BY <1>1, <1>2, <2>1
  <2> QED
    BY <1>1, <2>1, <2>2 DEF Max
<1> HIDE DEF k
<1>4. PICK row \in SubRecord : row = subs[k]
  BY <1>2, <1>3
<1>5. PICK rec : rec = [row EXCEPT !.plan = plan, !.price = catalogue[plan]]
  OBVIOUS
<1>6. /\ rec \in SubRecord /\ rec.from = row.from /\ rec.until = row.until
      /\ rec.active = row.active
  BY <1>1, <1>4, <1>5 DEF SubRecord
<1>7. subs' = [subs EXCEPT ![k] = rec]
  BY <1>1, <1>2, <1>3, <1>4, <1>5
<1> QED
  BY <1>3, <1>4, <1>6, <1>7 DEF EditsARow

LEMMA PriceEdits ==
  ASSUME RowsInv, NEW e \in Editors, NEW price \in Prices,
         AdjustSubscriptionPrice(e, price)
  PROVE  EditsARow
<1> DEFINE k == Latest(PriceableSubs)
<1>1. /\ SubscriptionsTypeOK /\ RowsInOrder
      /\ PriceableSubs # {} /\ PriceableSubs \in SUBSET DOMAIN subs
      /\ UNCHANGED <<standing, expense, date>>
      /\ subs' = [subs EXCEPT ![k].price = price]
  BY DEF RowsInv, AdjustSubscriptionPrice, PriceableSubs
<1>2. k \in DOMAIN subs /\ subs[k] \in SubRecord
  BY <1>1, LatestRow
<1> HIDE DEF k
<1>3. PICK row \in SubRecord : row = subs[k]
  BY <1>2
<1>4. PICK rec : rec = [row EXCEPT !.price = price]
  OBVIOUS
<1>5. /\ rec \in SubRecord /\ rec.from = row.from /\ rec.until = row.until
      /\ rec.active = row.active
  BY <1>3, <1>4 DEF SubRecord
<1>6. subs' = [subs EXCEPT ![k] = rec]
  BY <1>1, <1>2, <1>3, <1>4
<1> QED
  BY <1>2, <1>3, <1>5, <1>6 DEF EditsARow

LEMMA EditKeeps ==
  ASSUME RowsInv, RestTypes', EditsARow, UNCHANGED <<standing, expense, date>>
  PROVE  RowsInv'
BY RowEditKeeps DEF EditsARow

LEMMA EditBillsOn ==
  ASSUME RowsInv, EditsARow, NEW m, Buildable(m)
  PROVE  Buildable(m)'
<1>1. PICK k \in DOMAIN subs, rec \in SubRecord :
        /\ rec.from = subs[k].from /\ rec.until = subs[k].until /\ rec.active = subs[k].active
        /\ subs' = [subs EXCEPT ![k] = rec]
  BY DEF EditsARow
<1>2. /\ DOMAIN subs' = DOMAIN subs
      /\ \A i \in DOMAIN subs : /\ subs'[i].from = subs[i].from
                                /\ subs'[i].until = subs[i].until
                                /\ subs'[i].active = subs[i].active
  BY <1>1, RowEdited
<1> QED
  BY <1>2 DEF Buildable, BillingSubs, Active

\* An expense that begins with the next month, or ends with this one.
LEMMA ExpenseEditKeeps ==
  ASSUME RowsInv, RestTypes', NEW e \in Editors, AddExpense(e) \/ RemoveExpense(e)
  PROVE  RowsInv'
<1>0. /\ SubscriptionsTypeOK /\ ExpenseByMonth /\ expense \in [from : Nat, until : Nat]
      /\ UNCHANGED <<standing, subs, date>>
  BY DEF RowsInv, SubscriptionsTypeOK, AddExpense, RemoveExpense
<1>1. /\ ThisMonth \in Nat /\ ThisMonth + 1 \in Nat /\ Never \in Nat
      /\ FirstOf(ThisMonth + 1) \in Nat /\ LastOf(ThisMonth) \in Nat
  <2>1. ThisMonth \in Nat /\ ThisMonth + 1 \in Nat /\ Never \in Nat
    BY <1>0, Calendar
  <2> QED
    BY <2>1, DaysOfMonths
<1>2. CASE AddExpense(e)
  <2>1. expense' = [from |-> FirstOf(ThisMonth + 1), until |-> Never]
    BY <1>2 DEF AddExpense
  <2>2. expense' \in [from : Nat, until : Nat] /\ ExpenseByMonth'
    BY <1>1, <2>1 DEF ExpenseByMonth
  <2> QED
    BY <1>0, <2>2, ExpenseKeeps
<1>3. CASE RemoveExpense(e)
  <2>1. expense' = [expense EXCEPT !.until = LastOf(ThisMonth)]
    BY <1>3 DEF RemoveExpense
  <2>2. /\ expense' \in [from : Nat, until : Nat]
        /\ expense'.from = expense.from /\ expense'.until = LastOf(ThisMonth)
    BY <1>0, <1>1, <2>1
  <2>3. ExpenseByMonth'
    BY <1>0, <1>1, <2>2 DEF ExpenseByMonth
  <2> QED
    BY <1>0, <2>2, <2>3, ExpenseKeeps
<1> QED
  BY <1>2, <1>3

\* Suspension and its end leave the rows, of a tenant that is in force.
LEMMA StandingKeeps ==
  ASSUME RowsInv, RestTypes', StandingTurns
  PROVE  RowsInv'
<1>1. UNCHANGED <<subs, expense, date>> /\ standing \in Paying /\ standing' \in Paying
  BY DEF StandingTurns, Paying
<1>2. SubscriptionsTypeOK'
  BY <1>1 DEF RowsInv, SubscriptionsTypeOK, RestTypes
<1> QED
  BY <1>1, <1>2 DEF RowsInv, RowsInOrder, RowsByMonth, RowToday, LastRunsOn, Prospective,
     ExpenseByMonth, ThisMonth, Live, Paying

LEMMA RowsStep ==
  ASSUME RowsInv, [SubscriptionsNext]_subscriptionsVars
  PROVE  RowsInv'
<1>1. CASE UNCHANGED subscriptionsVars
  <2>1. RestTypes'
    BY <1>1 DEF RowsInv, SubscriptionsTypeOK, RestTypes, subscriptionsVars
  <2> QED
    BY <1>1, <2>1, RowsUntouched DEF subscriptionsVars
<1>2. CASE SubscriptionsNext
  <2>0. RestTypes'
    BY <1>2, RestStep
  <2>1. ASSUME NEW plan \in Plans, NEW price \in Prices, CreateTenant(plan, price)
        PROVE  RowsInv'
    BY <2>0, <2>1, CreateKeeps
  <2>2. ASSUME NEW plan \in Plans, NEW price \in Prices, ChangePlan(plan, price)
        PROVE  RowsInv'
    BY <2>0, <2>2, SwitchKeeps DEF ChangePlan
  <2>3. ASSUME NEW m \in Months, GraduateTenant(m) PROVE RowsInv'
    <3>1. Flat \in Plans /\ catalogue[Flat] \in Prices
      BY DEF RowsInv, SubscriptionsTypeOK, Flat, Plans
    <3> QED
      BY <2>0, <2>3, <3>1, SwitchKeeps DEF GraduateTenant
  <2>4. ASSUME NEW e \in Editors, NEW plan \in Plans, SetTenantPackage(e, plan)
        PROVE  RowsInv'
    BY <2>0, <2>4, PackageEdits, EditKeeps DEF SetTenantPackage
  <2>5. ASSUME NEW e \in Editors, NEW price \in Prices, AdjustSubscriptionPrice(e, price)
        PROVE  RowsInv'
    BY <2>0, <2>5, PriceEdits, EditKeeps DEF AdjustSubscriptionPrice
  <2>6. CASE ActivateTenant
    BY <2>0, <2>6, ActivateKeeps
  <2>7. CASE StandingTurns
    BY <2>0, <2>7, StandingKeeps
  <2>8. CASE OffboardTenant
    BY <2>0, <2>8, OffboardKeeps
  <2>9. ASSUME NEW e \in Editors, AddExpense(e) \/ RemoveExpense(e) PROVE RowsInv'
    BY <2>0, <2>9, ExpenseEditKeeps
  <2>10. CASE NextDate
    BY <2>10, NextDateKeeps
  <2>11. ASSUME UNCHANGED <<standing, subs, expense, date>> PROVE RowsInv'
    BY <2>0, <2>11, RowsUntouched
  <2>12. ASSUME NEW plan \in Plans, NEW price \in Prices, UpdatePlan(plan, price)
         PROVE  RowsInv'
    BY <2>11, <2>12 DEF UpdatePlan
  <2>13. CASE FirstDraft
    BY <2>11, <2>13 DEF FirstDraft
  <2>14. ASSUME NEW m \in Months,
                \/ GenerateDraft(m) \/ InsertDraft(m) \/ GenerationLost(m)
                \/ \E to \in {"issued", "none"} : DraftLeaves(m, to)
                \/ GraduationCheck(m) \/ DismissFlag(m) \/ MarkGraduated(m)
         PROVE  RowsInv'
    BY <2>11, <2>14 DEF GenerateDraft, InsertDraft, GenerationLost, DraftLeaves,
       GraduationCheck, DismissFlag, MarkGraduated
  <2>15. ASSUME NEW task \in Tasks, RequestLost(task) PROVE RowsInv'
    BY <2>11, <2>15 DEF RequestLost
  <2>16. ASSUME NEW e \in Editors,
                ListDrafts(e) \/ RebuildRefused(e) \/ RebuildLost(e)
                  \/ \E m \in Months : LockDraft(e, m) \/ WriteDraft(e, m)
         PROVE  RowsInv'
    BY <2>11, <2>16 DEF ListDrafts, RebuildRefused, RebuildLost, LockDraft, TakeDraft,
       WriteDraft
  <2> QED
    BY <1>2, <2>1, <2>2, <2>3, <2>4, <2>5, <2>6, <2>7, <2>8, <2>9, <2>10, <2>12, <2>13,
       <2>14, <2>15, <2>16 DEF SubscriptionsNext
<1> QED
  BY <1>1, <1>2

LEMMA RowsInvariance == SubscriptionsSpec => []RowsInv
BY RowsInitial, RowsStep, PTL DEF SubscriptionsSpec

\* Every state of the rows, the drafts, the flags and what is under way is well
\* formed.
THEOREM SubscriptionsTypes == SubscriptionsSpec => []SubscriptionsTypeOK
<1>1. RowsInv => SubscriptionsTypeOK
  BY DEF RowsInv
<1> QED
  BY <1>1, RowsInvariance, PTL

\* What the console shows as the plan and the price of a tenant is what its invoice
\* for this month is built from, every month to come has a subscription to bill,
\* and every form that is offered finds the row it edits, whatever edits came
\* before (changePlan, setTenantPackage, adjustSubscriptionPrice,
\* addAddon, removeAddon and the queries of tenants/queries.ts).
THEOREM ShownIsWhatIsBilled == SubscriptionsSpec => []ShownIsBilled
BY RowsAreShown, RowsInvariance, PTL

-----------------------------------------------------------------------------
(* A change of plan, and the months before it.                             *)

LEMMA SwitchLeavesMonth ==
  ASSUME RowsInv, NEW plan \in Plans, NEW price \in Prices, Switch(plan, price),
         NEW m \in Months, m <= ThisMonth
  PROVE  BillingSubs(m)' = BillingSubs(m)
<1> DEFINE k == Latest(CurrentSubs)
           n == Len(subs)
           first == FirstOf(ThisMonth + 1)
<1>1. /\ k \in CurrentSubs /\ k \in 1 .. n
      /\ subs'[n + 1] = Sells(plan, price, first)
      /\ \A i \in 1 .. n : i # k => subs'[i] = subs[i]
      /\ subs'[k] = [subs[k] EXCEPT !.until = LastOf(ThisMonth)]
      /\ DOMAIN subs = 1 .. n /\ n \in Nat /\ DOMAIN subs' = 1 .. (n + 1)
  BY SwitchRows
<1>2. SubscriptionsTypeOK /\ \A i \in 1 .. n : subs[i] \in SubRecord
  BY <1>1, RowTypes DEF RowsInv
<1>3. /\ date \in Nat /\ ThisMonth \in Nat /\ m \in Nat
      /\ FirstOf(ThisMonth) <= date
      /\ FirstOf(ThisMonth) \in Nat /\ LastOf(ThisMonth) \in Nat /\ first \in Nat
      /\ LastOf(ThisMonth) + 1 = first /\ FirstOf(ThisMonth) <= LastOf(ThisMonth)
      /\ FirstOf(m) \in Nat /\ LastOf(m) \in Nat
      /\ FirstOf(m) <= FirstOf(ThisMonth) /\ LastOf(m) <= LastOf(ThisMonth)
  <2>1. /\ date \in Nat /\ ThisMonth \in Nat /\ m \in Nat /\ FirstOf(ThisMonth) <= date
        /\ ThisMonth + 1 \in Nat
    BY <1>2, Calendar
  <2>2. CASE m = ThisMonth
    BY <2>1, <2>2, DaysOfMonths
  <2>3. CASE m < ThisMonth
    BY <2>1, <2>3, DaysOfMonths
  <2> QED
    BY <2>1, <2>2, <2>3
<1> HIDE DEF k, n, first
<1>4. /\ subs[k].from \in Nat /\ subs[k].until \in Nat
      /\ subs'[k].active = subs[k].active /\ subs'[k].from = subs[k].from
      /\ subs'[k].until = LastOf(ThisMonth) /\ subs[k].until >= date
      /\ subs'[n + 1].from = first
  <2>1. subs[k] \in SubRecord
    BY <1>1, <1>2
  <2>2. subs[k].until >= date
    BY <1>1 DEF CurrentSubs
  <2> QED
    BY <1>1, <2>1, <2>2 DEF SubRecord, Sells
<1>5. ASSUME NEW i \in 1 .. (n + 1) PROVE i \in BillingSubs(m)' <=> i \in BillingSubs(m)
  <2>1. CASE i = k
    <3>1. subs[k].until >= FirstOf(m) /\ subs'[k].until >= FirstOf(m)
      BY <1>3, <1>4
    <3> QED
      BY <1>1, <1>4, <2>1, <3>1 DEF BillingSubs, Active
  <2>2. CASE i = n + 1
    <3>1. ~(subs'[i].from <= LastOf(m))
      BY <1>3, <1>4, <2>2
    <3>2. i \notin DOMAIN subs
      BY <1>1, <2>2
    <3> QED
      BY <3>1, <3>2 DEF BillingSubs
  <2>3. CASE i \in 1 .. n /\ i # k
    BY <1>1, <2>3 DEF BillingSubs, Active
  <2> QED
    BY <1>1, <2>1, <2>2, <2>3
<1>6. BillingSubs(m)' \subseteq 1 .. (n + 1) /\ BillingSubs(m) \subseteq 1 .. (n + 1)
  BY <1>1 DEF BillingSubs
<1> QED
  BY <1>5, <1>6

LEMMA SwitchLeavesBuilt ==
  ASSUME RowsInv, RowsInv', NEW plan \in Plans, NEW price \in Prices, Switch(plan, price),
         NEW m \in Months, m <= ThisMonth, Buildable(m), UNCHANGED expense
  PROVE  Buildable(m)' /\ Built(m)' = Built(m)
<1> DEFINE ids == BillingSubs(m)
           k == Latest(CurrentSubs)
           n == Len(subs)
<1>1. BillingSubs(m)' = ids /\ ids # {}
  BY SwitchLeavesMonth DEF Buildable
<1>2. /\ k \in 1 .. n
      /\ \A i \in 1 .. n : i # k => subs'[i] = subs[i]
      /\ subs'[k] = [subs[k] EXCEPT !.until = LastOf(ThisMonth)]
      /\ DOMAIN subs = 1 .. n /\ n \in Nat /\ DOMAIN subs' = 1 .. (n + 1)
      /\ Len(subs') = n + 1
  BY SwitchRows
<1>3. /\ RowsInOrder /\ RowsInOrder'
      /\ \A i \in DOMAIN subs : subs[i] \in SubRecord
      /\ \A i \in DOMAIN subs : subs[i].from \in Nat
      /\ \A i \in DOMAIN subs' : subs'[i] \in SubRecord
  BY RowTypes DEF RowsInv, SubscriptionsTypeOK
<1>4. \A i \in DOMAIN subs' : subs'[i].from \in Nat
  BY <1>3 DEF SubRecord
<1>5. ids \in SUBSET (1 .. n) /\ ids \in SUBSET (1 .. (n + 1))
  BY <1>2 DEF BillingSubs
<1> HIDE DEF ids, k, n
<1>6. /\ LatestOf(subs, ids) \in ids /\ \A j \in ids : j <= LatestOf(subs, ids)
  BY <1>1, <1>2, <1>3, <1>5, LatestIsLast DEF RowsInOrder
<1>7. /\ LatestOf(subs', ids) \in ids /\ \A j \in ids : j <= LatestOf(subs', ids)
  BY <1>1, <1>2, <1>3, <1>4, <1>5, LatestIsLast DEF RowsInOrder
<1>8. PICK i \in 1 .. n : i = LatestOf(subs, ids) /\ i = LatestOf(subs', ids)
  BY <1>2, <1>5, <1>6, <1>7
<1>9. Latest(BillingSubs(m)) = i /\ Latest(BillingSubs(m))' = i
  BY <1>1, <1>8 DEF Latest, LatestOf, ids
<1>10. subs'[i].plan = subs[i].plan /\ subs'[i].price = subs[i].price
  <2>1. CASE i = k
    BY <1>2, <1>3, <2>1 DEF SubRecord
  <2> QED
    BY <1>2, <2>1
<1>11. ExpenseIn(m)' = ExpenseIn(m)
  BY DEF ExpenseIn
<1> QED
  BY <1>1, <1>9, <1>10, <1>11 DEF Built, Buildable

\* "nothing is backdated": a change of plan, of the operator's or of a graduation,
\* leaves what this month and the ones before it are billed for (changePlan).
THEOREM NoBackdating == SubscriptionsSpec => NothingBackdated
<1>1. RowsInv /\ [SubscriptionsNext]_subscriptionsVars
        => [BackdatesNothing]_subscriptionsVars
  <2> SUFFICES ASSUME RowsInv, SubscriptionsNext, NEW m \in Months, m <= ThisMonth,
                      Buildable(m),
                      NEW plan \in Plans, NEW price \in Prices, Switch(plan, price)
               PROVE  Buildable(m)' /\ Built(m)' = Built(m)
    BY DEF BackdatesNothing
  <2>1. Len(subs') = Len(subs) + 1 /\ Len(subs) \in Nat
    BY SwitchRows
  <2>2. subs' # subs
    BY <2>1
  <2>3. UNCHANGED expense
    BY <2>2 DEF SubscriptionsNext, CreateTenant, ChangePlan, UpdatePlan, SetTenantPackage,
       AdjustSubscriptionPrice, ActivateTenant, FirstDraft, StandingTurns, OffboardTenant,
       AddExpense, RemoveExpense, ListDrafts, LockDraft, TakeDraft, WriteDraft,
       RebuildRefused, RebuildLost, GenerateDraft, InsertDraft, GenerationLost, DraftLeaves,
       GraduationCheck, DismissFlag, GraduateTenant, MarkGraduated, NextDate, RequestLost
  <2>4. RowsInv'
    BY RowsStep
  <2> QED
    BY <2>3, <2>4, SwitchLeavesBuilt
<1> QED
  BY <1>1, RowsInvariance, PTL DEF SubscriptionsSpec, NothingBackdated

-----------------------------------------------------------------------------
(* The drafts.                                                             *)

\* A step that leaves the drafts and their rebuilds.
LEMMA EditorsStay ==
  ASSUME EditorsInv, UNCHANGED <<editor, monthDraft, generating>>,
         standing' \in {"none", "prospect"} => standing \in {"none", "prospect"}
  PROVE  EditorsInv'
BY DEF EditorsInv, EditorsInOrder, Drafts, Generating

LEMMA EditorAsks ==
  ASSUME EditorsInv, NEW e \in Editors, EditedBy(e), editor \in [Editors -> EditorRows],
         UNCHANGED <<monthDraft, generating, standing>>
  PROVE  EditorsInv'
<1>1. PICK row : row = [Idle EXCEPT !.at = "due"]
  OBVIOUS
<1>2. row.at = "due" /\ row.todo = {} /\ row.holds = {}
  BY <1>1 DEF Idle
<1>3. editor' = [editor EXCEPT ![e] = row] /\ Drafts' = Drafts /\ Generating' = Generating
  BY <1>1 DEF EditedBy, Drafts, Generating
<1> QED
  BY <1>2, <1>3 DEF EditorsInv, EditorsInOrder

\* A request that is through, or gives up.
LEMMA EditorRests ==
  ASSUME EditorsInv, NEW e \in Editors, editor \in [Editors -> EditorRows],
         editor' = [editor EXCEPT ![e] = Idle],
         UNCHANGED <<monthDraft, generating, standing>>
  PROVE  EditorsInv'
<1>1. Drafts' = Drafts /\ Generating' = Generating
  BY DEF Drafts, Generating
<1>2. PICK row : row = Idle
  OBVIOUS
<1>3. row.todo = {} /\ row.holds = {}
  BY <1>2, NothingYet
<1> QED
  BY <1>1, <1>2, <1>3 DEF EditorsInv, EditorsInOrder

LEMMA EditorLists ==
  ASSUME EditorsInv, NEW e \in Editors, editor \in [Editors -> EditorRows], ListDrafts(e)
  PROVE  /\ EditorsInv'
         /\ Drafts = {} => editor' = [editor EXCEPT ![e] = Idle]
         /\ editor'[e].todo = Drafts /\ editor'[e].at # "due"
         /\ \A f \in Editors : f # e => editor'[f] = editor[f]
<1>1. UNCHANGED <<monthDraft, generating, standing>>
  BY DEF ListDrafts
<1>2. Drafts' = Drafts /\ Generating' = Generating
  BY <1>1 DEF Drafts, Generating
<1>3. PICK row : row = IF Drafts = {} THEN Idle
                       ELSE [Idle EXCEPT !.at = "loop", !.todo = Drafts]
  OBVIOUS
<1>4. row.todo = Drafts /\ row.holds = {} /\ row.at # "due" /\ (row.at # "loop" => Drafts = {})
  BY <1>3 DEF Idle
<1>5. editor' = [editor EXCEPT ![e] = row]
  BY <1>3 DEF ListDrafts
<1>6. EditorsInv'
  BY <1>1, <1>2, <1>4, <1>5 DEF EditorsInv, EditorsInOrder
<1> QED
  BY <1>3, <1>4, <1>5, <1>6

LEMMA EditorLocks ==
  ASSUME RowsInv, EditorsInv, NEW e \in Editors, NEW m \in Months, LockDraft(e, m)
  PROVE  /\ EditorsInv'
         /\ Buildable(m) /\ m \in editor[e].todo /\ editor[e].holds = {}
         /\ \A f \in Editors : f # e => editor'[f] = editor[f]
         /\ editor'[e].at = editor[e].at /\ editor'[e].todo = editor[e].todo \ {m}
         /\ editor'[e].holds = {m} /\ editor'[e].row = Built(m)
<1>1. /\ UNCHANGED <<monthDraft, generating, standing>>
      /\ Buildable(m) /\ m \in editor[e].todo /\ m \notin Held
      /\ editor[e].at = "loop" /\ editor[e].holds = {}
  BY DEF LockDraft, TakeDraft
<1>2. /\ SubscriptionsTypeOK /\ RowsInOrder /\ editor \in [Editors -> EditorRows]
  BY DEF RowsInv, SubscriptionsTypeOK
<1>3. Built(m) \in DraftRows /\ Built(m).status = "draft"
  BY <1>1, <1>2, BuiltIsDraft
<1>4. /\ \A f \in Editors : f # e => editor'[f] = editor[f]
      /\ editor'[e].at = editor[e].at /\ editor'[e].todo = editor[e].todo \ {m}
      /\ editor'[e].holds = {m} /\ editor'[e].row = Built(m)
  BY <1>2, <1>3, LockedRow DEF LockDraft, TakeDraft
<1>5. Drafts' = Drafts /\ Generating' = Generating
  BY <1>1 DEF Drafts, Generating
<1>6. \A f \in Editors : m \notin editor[f].holds
  BY <1>1 DEF Held
<1>7. EditorsInOrder'
  BY <1>1, <1>3, <1>4, <1>5, <1>6 DEF EditorsInv, EditorsInOrder
<1> QED
  BY <1>1, <1>4, <1>5, <1>7 DEF EditorsInv

LEMMA EditorWrites ==
  ASSUME RowsInv, EditorsInv, NEW e \in Editors, NEW m \in Months, WriteDraft(e, m)
  PROVE  /\ EditorsInv'
         /\ Drafts' = Drafts /\ m \in Drafts /\ editor[e].holds = {m}
         /\ monthDraft'[m] = editor[e].row
         /\ \A l \in Months : l # m => monthDraft'[l] = monthDraft[l]
<1>1. /\ UNCHANGED <<generating, standing>> /\ m \in editor[e].holds
      /\ monthDraft' = [monthDraft EXCEPT ![m] = editor[e].row]
  BY DEF WriteDraft
<1>2. monthDraft \in [Months -> DraftRows] /\ editor \in [Editors -> EditorRows]
  BY DEF RowsInv, SubscriptionsTypeOK
<1>3. /\ editor[e].at = "loop" /\ editor[e].row.status = "draft"
      /\ m \in Drafts /\ editor[e].holds = {m}
  BY <1>1 DEF EditorsInv, EditorsInOrder
<1>4. /\ monthDraft'[m] = editor[e].row
      /\ \A l \in Months : l # m => monthDraft'[l] = monthDraft[l]
  BY <1>1, <1>2
<1>5. Drafts' = Drafts /\ Generating' = Generating
  BY <1>1, <1>3, <1>4 DEF Drafts, Generating
<1>6. /\ \A f \in Editors : f # e => editor'[f] = editor[f]
      /\ editor'[e].holds = {} /\ editor'[e].todo = editor[e].todo
      /\ editor'[e].at \in {"idle", editor[e].at}
      /\ editor'[e].at = "idle" => editor'[e].todo = {} \/ editor[e].at = "idle"
  BY <1>2, UnlockedRow
<1>7. EditorsInOrder'
  BY <1>3, <1>5, <1>6 DEF EditorsInv, EditorsInOrder
<1>8. \A l \in Generating' : monthDraft'[l].status = "none"
  BY <1>3, <1>4, <1>5 DEF EditorsInv, Drafts, Generating
<1> QED
  BY <1>1, <1>3, <1>4, <1>5, <1>7, <1>8 DEF EditorsInv

LEMMA EditorMisses ==
  ASSUME RowsInv, EditorsInv, NEW m \in Months, NEW to \in {"issued", "none"},
         DraftLeaves(m, to)
  PROVE  /\ EditorsInv'
         /\ Drafts' = Drafts \ {m}
         /\ \A l \in Months : l # m => monthDraft'[l] = monthDraft[l]
<1>1. UNCHANGED <<generating, standing>> /\ m \in Drafts /\ m \notin Held
  BY DEF DraftLeaves
<1>2. monthDraft \in [Months -> DraftRows] /\ editor \in [Editors -> EditorRows]
  BY DEF RowsInv, SubscriptionsTypeOK
<1>3. \A l \in Months : l # m => monthDraft'[l] = monthDraft[l]
  BY <1>2 DEF DraftLeaves
<1>4. monthDraft'[m].status # "draft"
  <2>1. monthDraft'[m] = IF to = "issued" THEN [monthDraft[m] EXCEPT !.status = "issued"]
                         ELSE NoDraft
    BY <1>2 DEF DraftLeaves
  <2>2. [monthDraft[m] EXCEPT !.status = "issued"].status = "issued"
    BY <1>2 DEF DraftRows
  <2> QED
    BY <2>1, <2>2, NothingYet
<1>5. Drafts' = Drafts \ {m} /\ Generating' = Generating
  BY <1>1, <1>3, <1>4 DEF Drafts, Generating
<1>6. \A f \in Editors : /\ editor'[f].at = editor[f].at
                         /\ editor'[f].todo = editor[f].todo \ {m}
                         /\ editor'[f].holds = editor[f].holds
                         /\ editor'[f].row = editor[f].row
  BY <1>2, LeavingTypes
<1>7. \A f \in Editors : m \notin editor[f].holds
  BY <1>1 DEF Held
<1>8. EditorsInOrder'
  BY <1>5, <1>6, <1>7 DEF EditorsInv, EditorsInOrder
<1>9. \A l \in Generating' : monthDraft'[l].status = "none"
  BY <1>1, <1>3, <1>5 DEF EditorsInv, Drafts, Generating
<1> QED
  BY <1>1, <1>5, <1>8, <1>9, <1>3 DEF EditorsInv

\* What is read for a draft.
LEMMA EditorsRead ==
  ASSUME RowsInv, EditorsInv, NEW m \in Months, Draftable(m), ReadFor(m),
         UNCHANGED <<editor, monthDraft, standing>>
  PROVE  /\ EditorsInv'
         /\ Generating' \subseteq Generating \cup {m} /\ generating'[m] = Built(m)
         /\ \A l \in Months : l # m => generating'[l] = generating[l]
<1>1. generating \in [Months -> DraftRows] /\ generating' = [generating EXCEPT ![m] = Built(m)]
  BY DEF RowsInv, SubscriptionsTypeOK, ReadFor
<1>2. /\ generating'[m] = Built(m)
      /\ \A l \in Months : l # m => generating'[l] = generating[l]
  BY <1>1
<1>3. Generating' \subseteq Generating \cup {m} /\ Drafts' = Drafts
  BY <1>2 DEF Generating, Drafts
<1>4. EditorsInOrder'
  BY <1>3 DEF EditorsInv, EditorsInOrder
<1> QED
  BY <1>2, <1>3, <1>4 DEF EditorsInv, Draftable

\* It is inserted, or dropped.
LEMMA EditorsInsert ==
  ASSUME RowsInv, EditorsInv, NEW m \in Months, InsertDraft(m) \/ GenerationLost(m)
  PROVE  /\ EditorsInv'
         /\ Generating' = Generating \ {m} /\ m \in Generating /\ m \notin Drafts
         /\ Drafts \subseteq Drafts' /\ Drafts' \subseteq Drafts \cup {m}
         /\ InsertDraft(m) => monthDraft'[m] = generating[m]
         /\ GenerationLost(m) => Drafts' = Drafts
         /\ \A l \in Months : l # m => /\ monthDraft'[l] = monthDraft[l]
                                       /\ generating'[l] = generating[l]
<1>1. /\ generating \in [Months -> DraftRows] /\ monthDraft \in [Months -> DraftRows]
      /\ m \in Generating /\ UNCHANGED <<editor, standing>>
      /\ generating' = [generating EXCEPT ![m] = NoDraft]
      /\ monthDraft' = monthDraft \/ monthDraft' = [monthDraft EXCEPT ![m] = generating[m]]
  BY DEF RowsInv, SubscriptionsTypeOK, InsertDraft, GenerationLost
<1>2. /\ generating'[m] = NoDraft
      /\ \A l \in Months : l # m => /\ generating'[l] = generating[l]
                                    /\ monthDraft'[l] = monthDraft[l]
  BY <1>1
<1>3. monthDraft[m].status = "none"
  BY <1>1 DEF EditorsInv
<1>4. /\ Generating' = Generating \ {m} /\ m \notin Drafts
      /\ Drafts \subseteq Drafts' /\ Drafts' \subseteq Drafts \cup {m}
  BY <1>1, <1>2, <1>3 DEF Generating, Drafts
<1>5. EditorsInOrder'
  BY <1>1, <1>4 DEF EditorsInv, EditorsInOrder
<1>6. \A l \in Generating' : monthDraft'[l].status = "none"
  BY <1>2, <1>4 DEF EditorsInv, Generating
<1>7. standing' \notin {"none", "prospect"}
  BY <1>1 DEF EditorsInv
<1>8. InsertDraft(m) => monthDraft'[m] = generating[m]
  BY <1>1 DEF InsertDraft
<1>9. GenerationLost(m) => Drafts' = Drafts
  BY DEF GenerationLost, Drafts
<1> QED
  BY <1>1, <1>2, <1>4, <1>5, <1>6, <1>7, <1>8, <1>9 DEF EditorsInv

LEMMA EditorsStep ==
  ASSUME RowsInv, EditorsInv, [SubscriptionsNext]_subscriptionsVars
  PROVE  EditorsInv'
<1>0. editor \in [Editors -> EditorRows] /\ ThisMonth \in Months
  BY Calendar DEF RowsInv, SubscriptionsTypeOK
<1>1. CASE UNCHANGED subscriptionsVars
  BY <1>1, EditorsStay DEF subscriptionsVars
<1>2. ASSUME NEW plan \in Plans, NEW price \in Prices,
             CreateTenant(plan, price) \/ ChangePlan(plan, price) \/ UpdatePlan(plan, price)
      PROVE  EditorsInv'
  BY <1>2, EditorsStay DEF CreateTenant, ChangePlan, UpdatePlan
<1>3. CASE ActivateTenant \/ StandingTurns \/ OffboardTenant \/ NextDate
  BY <1>3, EditorsStay DEF ActivateTenant, StandingTurns, OffboardTenant, NextDate
<1>4. CASE FirstDraft
  <2>1. CASE Draftable(ThisMonth)
    BY <1>0, <1>4, <2>1, EditorsRead DEF FirstDraft
  <2>2. CASE ~Draftable(ThisMonth)
    BY <1>4, <2>2, EditorsStay DEF FirstDraft
  <2> QED
    BY <2>1, <2>2
<1>5. ASSUME NEW e \in Editors,
             \/ \E plan \in Plans : SetTenantPackage(e, plan)
             \/ \E price \in Prices : AdjustSubscriptionPrice(e, price)
             \/ AddExpense(e) \/ RemoveExpense(e)
      PROVE  EditorsInv'
  BY <1>0, <1>5, EditorAsks DEF SetTenantPackage, AdjustSubscriptionPrice, AddExpense,
     RemoveExpense
<1>6. ASSUME NEW e \in Editors, ListDrafts(e) PROVE EditorsInv'
  BY <1>0, <1>6, EditorLists
<1>7. ASSUME NEW e \in Editors, RebuildRefused(e) \/ RebuildLost(e) PROVE EditorsInv'
  BY <1>0, <1>7, EditorRests DEF RebuildRefused, RebuildLost
<1>8. ASSUME NEW e \in Editors, NEW m \in Months, LockDraft(e, m) \/ WriteDraft(e, m)
      PROVE  EditorsInv'
  BY <1>8, EditorLocks, EditorWrites
<1>9. ASSUME NEW m \in Months, GenerateDraft(m) PROVE EditorsInv'
  BY <1>9, EditorsRead DEF GenerateDraft
<1>10. ASSUME NEW m \in Months, InsertDraft(m) \/ GenerationLost(m) PROVE EditorsInv'
  BY <1>10, EditorsInsert
<1>11. ASSUME NEW m \in Months, NEW to \in {"issued", "none"}, DraftLeaves(m, to)
       PROVE  EditorsInv'
  BY <1>11, EditorMisses
<1>12. ASSUME NEW m \in Months,
              GraduationCheck(m) \/ DismissFlag(m) \/ GraduateTenant(m) \/ MarkGraduated(m)
       PROVE  EditorsInv'
  BY <1>12, EditorsStay DEF GraduationCheck, DismissFlag, GraduateTenant, MarkGraduated
<1>13. ASSUME NEW task \in Tasks, RequestLost(task) PROVE EditorsInv'
  BY <1>13, EditorsStay DEF RequestLost
<1> QED
  BY <1>1, <1>2, <1>3, <1>4, <1>5, <1>6, <1>7, <1>8, <1>9, <1>10, <1>11, <1>12, <1>13
     DEF SubscriptionsNext

\* What is built of a month depends on the rows and the expense alone.
LEMMA BuiltOfRows ==
  ASSUME UNCHANGED <<subs, expense>>
  PROVE  \A m : Buildable(m)' = Buildable(m) /\ Built(m)' = Built(m)
BY DEF Buildable, BillingSubs, Built, Latest, ExpenseIn, Active

\* A step that leaves the drafts, their rebuilds, and what there is to build them
\* from.
LEMMA DraftsStay ==
  ASSUME DraftsInv, UNCHANGED <<subs, expense, monthDraft, editor, generating>>,
         outdated \subseteq outdated', standing' \in Paying => standing \in Paying
  PROVE  DraftsInv'
<1>1. \A m : Buildable(m)' = Buildable(m) /\ Built(m)' = Built(m)
  BY BuiltOfRows
<1>2. Drafts' = Drafts /\ Generating' = Generating /\ (NoneDue' <=> NoneDue)
  BY DEF Drafts, Generating, NoneDue
<1>3. \A m : (Awaited(m)' <=> Awaited(m)) /\ (Locked(m)' <=> Locked(m))
  BY DEF Awaited, Locked
<1> QED
  BY <1>1, <1>2, <1>3 DEF DraftsInv

\* An edit that is committed: what is being generated is older.
LEMMA DraftsAwait ==
  ASSUME NEW e \in Editors, EditedBy(e), editor \in [Editors -> EditorRows],
         UNCHANGED generating
  PROVE  DraftsInv'
<1>1. Generating' \subseteq outdated'
  BY DEF EditedBy, Generating
<1>2. ~NoneDue'
  <2>1. editor'[e] = [Idle EXCEPT !.at = "due"]
    BY DEF EditedBy
  <2>2. editor'[e].at = "due"
    BY <2>1 DEF Idle
  <2> QED
    BY <2>2 DEF NoneDue
<1> QED
  BY <1>1, <1>2 DEF DraftsInv

\* A change of plan: every draft is older.
LEMMA DraftsPassed ==
  ASSUME EditorsInv, UNCHANGED <<monthDraft, generating, editor>>,
         Drafts \cup Generating \subseteq outdated'
  PROVE  DraftsInv'
<1>1. Drafts' \subseteq outdated' /\ Generating' \subseteq outdated'
  BY DEF Drafts, Generating
<1>2. \A e \in Editors : editor'[e].holds \subseteq outdated'
  BY DEF EditorsInv, EditorsInOrder
<1> QED
  BY <1>1, <1>2 DEF DraftsInv

\* A draft that is read is what would be built now.
LEMMA DraftsRead ==
  ASSUME RowsInv, EditorsInv, DraftsInv, NEW m \in Months, Draftable(m), ReadFor(m),
         UNCHANGED <<subs, expense, editor, monthDraft, standing>>
  PROVE  DraftsInv'
<1>1. \A l : Buildable(l)' = Buildable(l) /\ Built(l)' = Built(l)
  BY BuiltOfRows
<1>2. /\ Generating' \subseteq Generating \cup {m} /\ generating'[m] = Built(m)
      /\ \A l \in Months : l # m => generating'[l] = generating[l]
      /\ Generating \subseteq Months
  BY EditorsRead DEF Generating
<1>3. /\ Drafts' = Drafts /\ (NoneDue' <=> NoneDue) /\ m \notin Drafts /\ Buildable(m)
      /\ outdated' = outdated \ {m}
  BY DEF Drafts, NoneDue, Draftable, ReadFor
<1>4. \A l : (Awaited(l)' <=> Awaited(l)) /\ (Locked(l)' <=> Locked(l))
  BY DEF Awaited, Locked
<1>5. \A e \in Editors : m \notin editor[e].holds
  BY <1>3 DEF EditorsInv, EditorsInOrder
<1>6. ASSUME standing \in Paying, NEW l \in Generating' \ outdated'
      PROVE  Buildable(l)' /\ generating'[l] = Built(l)'
  <2>1. CASE l = m
    BY <1>1, <1>2, <1>3, <2>1
  <2>2. CASE l # m
    BY <1>1, <1>2, <1>3, <1>6, <2>2 DEF DraftsInv
  <2> QED
    BY <2>1, <2>2
<1>7. ASSUME standing \in Paying, NoneDue, NEW l \in Drafts' \ outdated'
      PROVE  Awaited(l)' \/ Locked(l)' \/ (Buildable(l)' /\ monthDraft'[l] = Built(l)')
  BY <1>1, <1>3, <1>4, <1>7 DEF DraftsInv
<1>8. ASSUME standing \in Paying, NoneDue, NEW e \in Editors,
             NEW l \in editor'[e].holds \ outdated'
      PROVE  Awaited(l)' \/ (Buildable(l)' /\ editor'[e].row = Built(l)')
  BY <1>1, <1>3, <1>4, <1>5, <1>8 DEF DraftsInv
<1> QED
  BY <1>3, <1>6, <1>7, <1>8 DEF DraftsInv

\* What is inserted was read, and a draft that is dropped is none.
LEMMA DraftsInsert ==
  ASSUME RowsInv, EditorsInv, DraftsInv, NEW m \in Months, InsertDraft(m) \/ GenerationLost(m)
  PROVE  DraftsInv'
<1>0. UNCHANGED <<subs, expense, editor, standing, outdated>>
  BY DEF InsertDraft, GenerationLost
<1>1. \A l : Buildable(l)' = Buildable(l) /\ Built(l)' = Built(l)
  BY <1>0, BuiltOfRows
<1>2. /\ Generating' = Generating \ {m} /\ m \in Generating /\ m \notin Drafts
      /\ Drafts' \subseteq Drafts \cup {m}
      /\ InsertDraft(m) => monthDraft'[m] = generating[m]
      /\ GenerationLost(m) => Drafts' = Drafts
      /\ \A l \in Months : l # m => /\ monthDraft'[l] = monthDraft[l]
                                    /\ generating'[l] = generating[l]
      /\ Generating \subseteq Months /\ Drafts \subseteq Months
  BY EditorsInsert DEF Generating, Drafts
<1>3. NoneDue' <=> NoneDue
  BY <1>0 DEF NoneDue
<1>4. \A l : (Awaited(l)' <=> Awaited(l)) /\ (Locked(l)' <=> Locked(l))
  BY <1>0 DEF Awaited, Locked
<1>6. ASSUME standing \in Paying, NEW l \in Generating' \ outdated'
      PROVE  Buildable(l)' /\ generating'[l] = Built(l)'
  BY <1>0, <1>1, <1>2, <1>6 DEF DraftsInv
<1>7. ASSUME standing \in Paying, NoneDue, NEW l \in Drafts' \ outdated'
      PROVE  Awaited(l)' \/ Locked(l)' \/ (Buildable(l)' /\ monthDraft'[l] = Built(l)')
  <2>1. CASE l = m
    BY <1>0, <1>1, <1>2, <1>7, <2>1 DEF DraftsInv
  <2>2. CASE l # m
    BY <1>0, <1>1, <1>2, <1>4, <1>7, <2>2 DEF DraftsInv
  <2> QED
    BY <2>1, <2>2
<1>8. ASSUME standing \in Paying, NoneDue, NEW e \in Editors,
             NEW l \in editor'[e].holds \ outdated'
      PROVE  Awaited(l)' \/ (Buildable(l)' /\ editor'[e].row = Built(l)')
  BY <1>0, <1>1, <1>4, <1>8 DEF DraftsInv
<1> QED
  BY <1>0, <1>3, <1>6, <1>7, <1>8 DEF DraftsInv

\* The drafts a request lists await it.
LEMMA DraftsListed ==
  ASSUME RowsInv, EditorsInv, DraftsInv, NEW e \in Editors, ListDrafts(e)
  PROVE  DraftsInv'
<1>0. /\ UNCHANGED <<subs, expense, monthDraft, generating, standing, outdated>>
      /\ editor \in [Editors -> EditorRows]
  BY DEF ListDrafts, RowsInv, SubscriptionsTypeOK
<1>1. \A l : Buildable(l)' = Buildable(l) /\ Built(l)' = Built(l)
  BY <1>0, BuiltOfRows
<1>2. EditorsInv' /\ editor'[e].todo = Drafts
  BY <1>0, EditorLists
<1>3. Generating' = Generating /\ Drafts' = Drafts
  BY <1>0 DEF Generating, Drafts
<1>4. \A l \in Drafts' : Awaited(l)'
  BY <1>2, <1>3 DEF Awaited
<1>5. \A f \in Editors : editor'[f].holds \subseteq Drafts'
  BY <1>2 DEF EditorsInv, EditorsInOrder
<1> QED
  BY <1>0, <1>1, <1>3, <1>4, <1>5 DEF DraftsInv

\* The ones a request gives up are outdated.
LEMMA DraftsGivenUp ==
  ASSUME RowsInv, EditorsInv, DraftsInv, NEW e \in Editors,
         RebuildRefused(e) \/ RebuildLost(e)
  PROVE  DraftsInv'
<1>0. /\ UNCHANGED <<subs, expense, monthDraft, generating, standing>>
      /\ editor \in [Editors -> EditorRows]
      /\ editor' = [editor EXCEPT ![e] = Idle] /\ outdated \subseteq outdated'
  BY DEF RebuildRefused, RebuildLost, RowsInv, SubscriptionsTypeOK
<1>1. \A l : Buildable(l)' = Buildable(l) /\ Built(l)' = Built(l)
  BY <1>0, BuiltOfRows
<1>2. Generating' = Generating /\ Drafts' = Drafts
  BY <1>0 DEF Generating, Drafts
<1>3. /\ \A f \in Editors : f # e => editor'[f] = editor[f]
      /\ editor'[e].at = "idle" /\ editor'[e].todo = {} /\ editor'[e].holds = {}
  <2>1. editor'[e] = Idle /\ \A f \in Editors : f # e => editor'[f] = editor[f]
    BY <1>0
  <2> QED
    BY <2>1, NothingYet
<1>4. /\ editor[e].at = "due" => Drafts \subseteq outdated'
      /\ editor[e].at # "due" =>
           editor[e].todo \subseteq outdated' /\ editor[e].holds \subseteq outdated'
  BY DEF RebuildRefused, RebuildLost
<1>5. CASE editor[e].at = "due"
  <2>1. \A f \in Editors : editor'[f].holds \subseteq outdated'
    BY <1>3, <1>4, <1>5 DEF EditorsInv, EditorsInOrder
  <2> QED
    BY <1>0, <1>1, <1>2, <1>4, <1>5, <2>1 DEF DraftsInv
<1>6. CASE editor[e].at # "due"
  <2>1. NoneDue' => NoneDue
    BY <1>3, <1>6 DEF NoneDue
  <2>2. \A l : /\ Awaited(l) => Awaited(l)' \/ l \in outdated'
               /\ Locked(l) => Locked(l)' \/ l \in outdated'
    BY <1>3, <1>4, <1>6 DEF Awaited, Locked
  <2>3. \A f \in Editors : \A l \in editor'[f].holds :
           l \in editor[f].holds /\ editor'[f].row = editor[f].row
    BY <1>3
  <2> QED
    BY <1>0, <1>1, <1>2, <2>1, <2>2, <2>3 DEF DraftsInv
<1> QED
  BY <1>5, <1>6

\* What is read behind the lock is what would be built now.
LEMMA DraftsLocked ==
  ASSUME RowsInv, EditorsInv, DraftsInv, NEW e \in Editors, NEW m \in Months,
         LockDraft(e, m)
  PROVE  DraftsInv'
<1>0. /\ UNCHANGED <<subs, expense, monthDraft, generating, standing>>
      /\ outdated' = outdated \ {m}
      /\ \A f \in Editors : m \notin editor[f].holds
  BY DEF LockDraft, TakeDraft, Held
<1>1. \A l : Buildable(l)' = Buildable(l) /\ Built(l)' = Built(l)
  BY <1>0, BuiltOfRows
<1>2. /\ Buildable(m) /\ m \in editor[e].todo /\ editor[e].holds = {}
      /\ \A f \in Editors : f # e => editor'[f] = editor[f]
      /\ editor'[e].at = editor[e].at /\ editor'[e].todo = editor[e].todo \ {m}
      /\ editor'[e].holds = {m} /\ editor'[e].row = Built(m)
  BY EditorLocks
<1>3. /\ Generating' = Generating /\ Drafts' = Drafts /\ (NoneDue' <=> NoneDue)
  BY <1>0, <1>2 DEF Generating, Drafts, NoneDue
<1>4. Locked(m)' /\ \A l : l # m => (Awaited(l)' <=> Awaited(l)) /\ (Locked(l)' <=> Locked(l))
  BY <1>2 DEF Awaited, Locked
<1>5. m \notin Generating
  <2>1. monthDraft[m].status = "draft"
    BY <1>2 DEF EditorsInv, EditorsInOrder, Drafts
  <2> QED
    BY <2>1 DEF EditorsInv
<1>6. ASSUME standing \in Paying, NEW l \in Generating' \ outdated'
      PROVE  Buildable(l)' /\ generating'[l] = Built(l)'
  BY <1>0, <1>1, <1>3, <1>5, <1>6 DEF DraftsInv
<1>7. ASSUME standing \in Paying, NoneDue, NEW l \in Drafts' \ outdated'
      PROVE  Awaited(l)' \/ Locked(l)' \/ (Buildable(l)' /\ monthDraft'[l] = Built(l)')
  <2>1. CASE l = m
    BY <1>4, <2>1
  <2>2. CASE l # m
    BY <1>0, <1>1, <1>3, <1>4, <1>7, <2>2 DEF DraftsInv
  <2> QED
    BY <2>1, <2>2
<1>8. ASSUME standing \in Paying, NoneDue, NEW f \in Editors,
             NEW l \in editor'[f].holds \ outdated'
      PROVE  Awaited(l)' \/ (Buildable(l)' /\ editor'[f].row = Built(l)')
  <2>1. CASE f = e
    BY <1>1, <1>2, <1>8, <2>1
  <2>2. CASE f # e
    BY <1>0, <1>1, <1>2, <1>4, <1>8, <2>2 DEF DraftsInv
  <2> QED
    BY <2>1, <2>2
<1> QED
  BY <1>0, <1>3, <1>6, <1>7, <1>8 DEF DraftsInv

\* It is written before the lock is given up.
LEMMA DraftsWritten ==
  ASSUME RowsInv, EditorsInv, DraftsInv, NEW e \in Editors, NEW m \in Months,
         WriteDraft(e, m)
  PROVE  DraftsInv'
<1>0. /\ UNCHANGED <<subs, expense, generating, standing, outdated>>
      /\ editor \in [Editors -> EditorRows]
  BY DEF WriteDraft, RowsInv, SubscriptionsTypeOK
<1>1. \A l : Buildable(l)' = Buildable(l) /\ Built(l)' = Built(l)
  BY <1>0, BuiltOfRows
<1>2. /\ Drafts' = Drafts /\ m \in Drafts /\ editor[e].holds = {m}
      /\ monthDraft'[m] = editor[e].row /\ Drafts \subseteq Months
      /\ \A l \in Months : l # m => monthDraft'[l] = monthDraft[l]
  BY EditorWrites DEF Drafts
<1>3. /\ \A f \in Editors : f # e => editor'[f] = editor[f]
      /\ editor'[e].holds = {} /\ editor'[e].todo = editor[e].todo
      /\ editor'[e].at \in {"idle", editor[e].at}
  BY <1>0, UnlockedRow
<1>4. editor[e].at # "due"
  BY <1>2 DEF EditorsInv, EditorsInOrder
<1>5. Generating' = Generating /\ (NoneDue' => NoneDue)
  BY <1>0, <1>3, <1>4 DEF Generating, NoneDue
<1>6. /\ \A l : Awaited(l)' <=> Awaited(l)
      /\ \A l : l # m => (Locked(l)' <=> Locked(l))
  BY <1>2, <1>3 DEF Awaited, Locked
<1>7. ASSUME standing \in Paying, NoneDue, NEW l \in Drafts' \ outdated'
      PROVE  Awaited(l)' \/ Locked(l)' \/ (Buildable(l)' /\ monthDraft'[l] = Built(l)')
  <2>1. CASE l = m
    <3>1. m \in editor[e].holds \ outdated
      BY <1>0, <1>2, <1>7, <2>1
    <3>2. Awaited(m) \/ (Buildable(m) /\ editor[e].row = Built(m))
      BY <1>7, <3>1 DEF DraftsInv
    <3> QED
      BY <1>1, <1>2, <1>6, <2>1, <3>2
  <2>2. CASE l # m
    BY <1>0, <1>1, <1>2, <1>6, <1>7, <2>2 DEF DraftsInv
  <2> QED
    BY <2>1, <2>2
<1>8. ASSUME standing \in Paying, NoneDue, NEW f \in Editors,
             NEW l \in editor'[f].holds \ outdated'
      PROVE  Awaited(l)' \/ (Buildable(l)' /\ editor'[f].row = Built(l)')
  <2>1. f # e
    BY <1>3, <1>8
  <2> QED
    BY <1>0, <1>1, <1>3, <1>6, <1>8, <2>1 DEF DraftsInv
<1>9. ASSUME standing \in Paying, NEW l \in Generating' \ outdated'
      PROVE  Buildable(l)' /\ generating'[l] = Built(l)'
  BY <1>0, <1>1, <1>5, <1>9 DEF DraftsInv
<1> QED
  BY <1>0, <1>5, <1>7, <1>8, <1>9 DEF DraftsInv

\* A draft that leaves awaits nothing.
LEMMA DraftsLeft ==
  ASSUME RowsInv, EditorsInv, DraftsInv, NEW m \in Months, NEW to \in {"issued", "none"},
         DraftLeaves(m, to)
  PROVE  DraftsInv'
<1>0. /\ UNCHANGED <<subs, expense, generating, standing>> /\ outdated' = outdated \ {m}
      /\ editor \in [Editors -> EditorRows]
      /\ m \in Drafts /\ \A f \in Editors : m \notin editor[f].holds
  BY DEF DraftLeaves, Held, RowsInv, SubscriptionsTypeOK
<1>1. \A l : Buildable(l)' = Buildable(l) /\ Built(l)' = Built(l)
  BY <1>0, BuiltOfRows
<1>2. /\ Drafts' = Drafts \ {m} /\ Drafts \subseteq Months
      /\ \A l \in Months : l # m => monthDraft'[l] = monthDraft[l]
  BY EditorMisses DEF Drafts
<1>3. \A f \in Editors : /\ editor'[f].at = editor[f].at
                         /\ editor'[f].todo = editor[f].todo \ {m}
                         /\ editor'[f].holds = editor[f].holds
                         /\ editor'[f].row = editor[f].row
  BY <1>0, LeavingTypes
<1>4. Generating' = Generating /\ (NoneDue' <=> NoneDue)
  BY <1>0, <1>3 DEF Generating, NoneDue
<1>5. \A l : l # m => (Awaited(l)' <=> Awaited(l)) /\ (Locked(l)' <=> Locked(l))
  BY <1>3 DEF Awaited, Locked
<1>6. m \notin Generating
  BY <1>0 DEF EditorsInv, Drafts
<1>7. ASSUME standing \in Paying, NoneDue, NEW l \in Drafts' \ outdated'
      PROVE  Awaited(l)' \/ Locked(l)' \/ (Buildable(l)' /\ monthDraft'[l] = Built(l)')
  BY <1>0, <1>1, <1>2, <1>5, <1>7 DEF DraftsInv
<1>8. ASSUME standing \in Paying, NoneDue, NEW f \in Editors,
             NEW l \in editor'[f].holds \ outdated'
      PROVE  Awaited(l)' \/ (Buildable(l)' /\ editor'[f].row = Built(l)')
  <2>1. l # m /\ l \in editor[f].holds \ outdated
    BY <1>0, <1>3, <1>8
  <2> QED
    BY <1>1, <1>3, <1>5, <1>8, <2>1 DEF DraftsInv
<1>9. ASSUME standing \in Paying, NEW l \in Generating' \ outdated'
      PROVE  Buildable(l)' /\ generating'[l] = Built(l)'
  BY <1>0, <1>1, <1>4, <1>6, <1>9 DEF DraftsInv
<1> QED
  BY <1>0, <1>4, <1>7, <1>8, <1>9 DEF DraftsInv

LEMMA DraftsStep ==
  ASSUME RowsInv, EditorsInv, DraftsInv, [SubscriptionsNext]_subscriptionsVars
  PROVE  DraftsInv'
<1>0. /\ SubscriptionsTypeOK /\ ThisMonth \in Months /\ editor \in [Editors -> EditorRows]
  BY Calendar DEF RowsInv, SubscriptionsTypeOK
<1>1. CASE UNCHANGED subscriptionsVars
  BY <1>1, DraftsStay DEF subscriptionsVars
<1>2. ASSUME NEW plan \in Plans, NEW price \in Prices, CreateTenant(plan, price)
      PROVE  DraftsInv'
  BY <1>2 DEF CreateTenant, DraftsInv, Paying
<1>3. CASE ActivateTenant
  <2>1. Drafts = {} /\ Generating = {} /\ UNCHANGED <<monthDraft, generating, editor>>
    BY <1>3 DEF ActivateTenant, EditorsInv
  <2> QED
    BY <2>1, DraftsPassed
<1>4. CASE OffboardTenant
  BY <1>4 DEF OffboardTenant, DraftsInv, Paying
<1>5. CASE StandingTurns
  BY <1>5, DraftsStay DEF StandingTurns, Paying
<1>6. ASSUME NEW plan \in Plans, NEW price \in Prices, ChangePlan(plan, price)
      PROVE  DraftsInv'
  BY <1>6, DraftsPassed DEF ChangePlan, Switch, SwitchAt
<1>7. ASSUME NEW m \in Months, GraduateTenant(m) PROVE DraftsInv'
  BY <1>7, DraftsPassed DEF GraduateTenant, Switch, SwitchAt
<1>8. CASE FirstDraft
  <2>1. CASE Draftable(ThisMonth)
    BY <1>0, <1>8, <2>1, DraftsRead DEF FirstDraft
  <2>2. CASE ~Draftable(ThisMonth)
    BY <1>8, <2>2, DraftsStay DEF FirstDraft
  <2> QED
    BY <2>1, <2>2
<1>9. ASSUME NEW m \in Months, GenerateDraft(m) PROVE DraftsInv'
  BY <1>9, DraftsRead DEF GenerateDraft
<1>10. ASSUME NEW m \in Months, InsertDraft(m) \/ GenerationLost(m) PROVE DraftsInv'
  BY <1>10, DraftsInsert
<1>11. ASSUME NEW m \in Months, NEW to \in {"issued", "none"}, DraftLeaves(m, to)
       PROVE  DraftsInv'
  BY <1>11, DraftsLeft
<1>12. ASSUME NEW e \in Editors,
              \/ \E plan \in Plans : SetTenantPackage(e, plan)
              \/ \E price \in Prices : AdjustSubscriptionPrice(e, price)
              \/ AddExpense(e) \/ RemoveExpense(e)
       PROVE  DraftsInv'
  BY <1>0, <1>12, DraftsAwait DEF SetTenantPackage, AdjustSubscriptionPrice, AddExpense,
     RemoveExpense
<1>13. ASSUME NEW e \in Editors, ListDrafts(e) PROVE DraftsInv'
  BY <1>13, DraftsListed
<1>14. ASSUME NEW e \in Editors, RebuildRefused(e) \/ RebuildLost(e) PROVE DraftsInv'
  BY <1>14, DraftsGivenUp
<1>15. ASSUME NEW e \in Editors, NEW m \in Months, LockDraft(e, m) \/ WriteDraft(e, m)
       PROVE  DraftsInv'
  BY <1>15, DraftsLocked, DraftsWritten
<1>16. ASSUME NEW plan \in Plans, NEW price \in Prices, UpdatePlan(plan, price)
       PROVE  DraftsInv'
  BY <1>16, DraftsStay DEF UpdatePlan
<1>17. ASSUME NEW m \in Months, GraduationCheck(m) \/ DismissFlag(m) \/ MarkGraduated(m)
       PROVE  DraftsInv'
  BY <1>17, DraftsStay DEF GraduationCheck, DismissFlag, MarkGraduated
<1>18. CASE NextDate
  BY <1>18, DraftsStay DEF NextDate
<1>19. ASSUME NEW task \in Tasks, RequestLost(task) PROVE DraftsInv'
  BY <1>19, DraftsStay DEF RequestLost
<1> QED
  BY <1>1, <1>2, <1>3, <1>4, <1>5, <1>6, <1>7, <1>8, <1>9, <1>10, <1>11, <1>12, <1>13, <1>14,
     <1>15, <1>16, <1>17, <1>18, <1>19 DEF SubscriptionsNext

\* However rebuilds, generations and approvals fall between each other, a draft of
\* a tenant in force that no request has yet to rebuild bills what the rows say,
\* unless a plan change passed it, its rebuild was lost or ended early, or it was
\* read before an edit and inserted after it (generateInvoiceForTenant,
\* rebuildTenantDraftInvoices and rebuildDraftInvoice).
THEOREM DraftsFollow == SubscriptionsSpec => []DraftsFollowEdits
<1>1. SubscriptionsInit => EditorsInv /\ DraftsInv
  <2> SUFFICES ASSUME SubscriptionsInit PROVE EditorsInv /\ DraftsInv
    OBVIOUS
  <2>1. Drafts = {} /\ Generating = {}
    BY NothingYet DEF SubscriptionsInit, Drafts, Generating
  <2>2. \A e \in Editors : editor[e] = Idle
    BY DEF SubscriptionsInit
  <2>3. EditorsInOrder
    BY <2>1, <2>2, NothingYet DEF EditorsInOrder
  <2> QED
    BY <2>1, <2>3 DEF SubscriptionsInit, EditorsInv, DraftsInv, Paying
<1>2. RowsInv /\ EditorsInv /\ [SubscriptionsNext]_subscriptionsVars => EditorsInv'
  BY EditorsStep
<1>3. RowsInv /\ EditorsInv /\ DraftsInv /\ [SubscriptionsNext]_subscriptionsVars
        => DraftsInv'
  BY DraftsStep
<1>4. DraftsInv => DraftsFollowEdits
  BY DEF DraftsInv, DraftsFollowEdits, NoneDue, Awaited, Locked, Paying
<1> QED
  BY <1>1, <1>2, <1>3, <1>4, RowsInvariance, PTL DEF SubscriptionsSpec

-----------------------------------------------------------------------------
(* The flags.                                                              *)

LEMMA MarksStep ==
  ASSUME RowsInv, MarksAfterMove, [SubscriptionsNext]_subscriptionsVars
  PROVE  MarksAfterMove'
<1>0. /\ flag \in [Months -> {"none", "open", "dismissed", "graduated"}]
      /\ \A m \in Months : MarkDue(m) # DraftDue
  BY DEF RowsInv, SubscriptionsTypeOK, MarkDue, DraftDue
<1>1. \/ moved'
      \/ /\ moved' = moved
         /\ inFlight' \subseteq inFlight \cup {DraftDue}
         /\ \/ flag' = flag
            \/ \E m \in Months : GraduationCheck(m) \/ DismissFlag(m) \/ MarkGraduated(m)
  BY DEF SubscriptionsNext, CreateTenant, ChangePlan, UpdatePlan, SetTenantPackage,
     AdjustSubscriptionPrice, ActivateTenant, FirstDraft, StandingTurns, OffboardTenant,
     AddExpense, RemoveExpense, ListDrafts, LockDraft, TakeDraft, WriteDraft,
       RebuildRefused, RebuildLost, GenerateDraft, InsertDraft, GenerationLost, DraftLeaves,
     GraduationCheck, DismissFlag, GraduateTenant, MarkGraduated, NextDate, RequestLost,
     subscriptionsVars
<1>2. CASE moved'
  BY <1>2 DEF MarksAfterMove
<1>3. ASSUME moved' = moved, inFlight' \subseteq inFlight \cup {DraftDue},
             NEW m \in Months, MarkDue(m) \in inFlight'
      PROVE  moved'
  BY <1>0, <1>3 DEF MarksAfterMove
<1>4. ASSUME moved' = moved, NEW m \in Months, flag'[m] = "graduated",
             \/ flag' = flag
             \/ \E l \in Months : GraduationCheck(l) \/ DismissFlag(l) \/ MarkGraduated(l)
      PROVE  moved'
  BY <1>0, <1>4 DEF GraduationCheck, DismissFlag, MarkGraduated, MarksAfterMove
<1> QED
  BY <1>1, <1>2, <1>3, <1>4 DEF MarksAfterMove

\* A suggestion that was turned down is not raised again for its months, and one is
\* closed as graduated only when the tenant was moved (runGraduationCheck,
\* dismissGraduationFlag, graduateTenantAction).
THEOREM FlagsKeep == SubscriptionsSpec => FlagsKeepTheirAnswer
<1>1. SubscriptionsInit => MarksAfterMove
  BY DEF SubscriptionsInit, MarksAfterMove
<1>2. RowsInv /\ MarksAfterMove /\ [SubscriptionsNext]_subscriptionsVars => MarksAfterMove'
  BY MarksStep
<1>3. RowsInv /\ MarksAfterMove /\ [SubscriptionsNext]_subscriptionsVars =>
        [\A m \in Months :
           /\ flag[m] # "none" => flag'[m] # "none"
           /\ flag[m] \in {"dismissed", "graduated"} => flag'[m] # "open"
           /\ flag'[m] = "graduated" => moved]_subscriptionsVars
  <2> SUFFICES ASSUME RowsInv, MarksAfterMove, SubscriptionsNext, NEW m \in Months
               PROVE  /\ flag[m] # "none" => flag'[m] # "none"
                      /\ flag[m] \in {"dismissed", "graduated"} => flag'[m] # "open"
                      /\ flag'[m] = "graduated" => moved
    OBVIOUS
  <2>1. flag \in [Months -> {"none", "open", "dismissed", "graduated"}]
    BY DEF RowsInv, SubscriptionsTypeOK
  <2>2. \/ flag' = flag
        \/ \E l \in Months : GraduationCheck(l) \/ DismissFlag(l) \/ MarkGraduated(l)
    BY DEF SubscriptionsNext, CreateTenant, ChangePlan, UpdatePlan, SetTenantPackage,
       AdjustSubscriptionPrice, ActivateTenant, FirstDraft, StandingTurns, OffboardTenant,
       AddExpense, RemoveExpense, ListDrafts, LockDraft, TakeDraft, WriteDraft,
       RebuildRefused, RebuildLost, GenerateDraft, InsertDraft, GenerationLost, DraftLeaves,
       GraduateTenant, NextDate, RequestLost
  <2> QED
    BY <2>1, <2>2 DEF GraduationCheck, DismissFlag, MarkGraduated, MarksAfterMove
<1> QED
  BY <1>1, <1>2, <1>3, RowsInvariance, PTL DEF SubscriptionsSpec, FlagsKeepTheirAnswer

-----------------------------------------------------------------------------
(* The console.                                                            *)

\* What is checked as one is a behaviour of each part: what the theorems say of
\* collections, of the billing run and of the subscriptions holds of it there.
THEOREM ConsoleIsItsParts ==
  ConsoleSpec => CollectionsSpec /\ BillingRunSpec /\ SubscriptionsSpec
<1>1. ConsoleInit => CollectionsInit /\ BillingRunInit /\ SubscriptionsInit
  BY DEF ConsoleInit
<1>2. [ConsoleNext]_consoleVars =>
        /\ [CollectionsNext]_collectionsVars
        /\ [BillingRunNext]_billingRunVars
        /\ [SubscriptionsNext]_subscriptionsVars
  BY DEF ConsoleNext, consoleVars
<1> QED
  BY <1>1, <1>2, PTL DEF ConsoleSpec, CollectionsSpec, BillingRunSpec, SubscriptionsSpec

\* Every state of the three parts is well formed.
THEOREM ConsoleTypes == ConsoleSpec => []ConsoleTypeOK
<1>1. CollectionsTypeOK /\ BillingRunTypeOK /\ SubscriptionsTypeOK => ConsoleTypeOK
  BY DEF ConsoleTypeOK
<1> QED
  BY <1>1, ConsoleIsItsParts, CollectionsTypes, BillingRunTypes, SubscriptionsTypes, PTL
=============================================================================
