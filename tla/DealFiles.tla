------------------------------ MODULE DealFiles ------------------------------
(***************************************************************************)
(* The directory of deal data files (store.go, WriteDataURI and GC) over   *)
(* the bid store whose workers fill it, and over the HTTP API, which lists *)
(* bids and downloads files of its own.                                    *)
(*                                                                         *)
(* A file is named after the payload cid and the bid.  All bids have the   *)
(* same payload here, so that only the bid tells their files apart.  The   *)
(* clock is abstract: at any time a file nobody writes may become older    *)
(* than discardOrphanDealsAfter, which exceeds dealDataFetchTimeout (24 h  *)
(* and 3 h by default).  Links and directories are ignored by GC and are   *)
(* not modelled; removing a file or a bid does not fail.                   *)
(***************************************************************************)
EXTENDS DataURI, BidList

CONSTANTS Bids, Workers, Handlers, FetchAttempts, ConcurrentImports,
          DiscardOrphans, StoreFails, MaxBoots,    \* of the store
          Requests,        \* downloads asked for through the HTTP API
          ChunkedDownload  \* is the boosted download on?

\* The id of a bid in the store is not empty (NoBidID, NoOffset).
ASSUME BidsAssumption     == Bids \subseteq Nat \ {0} /\ Bids # {} /\ IsFiniteSet(Bids)
ASSUME WorkersAssumption  == IsFiniteSet(Workers)
ASSUME HandlersAssumption == {"next", "orphans", "none"} \cap Handlers = {}
ASSUME LimitsAssumption   ==
  /\ FetchAttempts \in Nat \ {0}
  /\ ConcurrentImports \in Nat
  /\ DefaultListLimit \in Nat \ {0} /\ MaxListLimit \in Nat \ {0}
  /\ MaxBoots \in Nat \ {0}
ASSUME FlagsAssumption    == DiscardOrphans \in BOOLEAN /\ StoreFails \in BOOLEAN

VARIABLES
  db, jobCh, tickCh, timer, worker, txn, orphans, cell, gc, phase, boots,
  imports, raced,   \* of the store
  file,     \* what each deal data file holds
  stale,    \* files older than discardOrphanDealsAfter
  writing,  \* the file each worker has created and downloads to
  asked,    \* API requests under way
  pass,     \* the running GC pass
  lost      \* history: files of bids that GC removed, until they are created again

Store == INSTANCE BidStoreProps WITH ListLimit <- DefaultListLimit

storeVars == <<db, jobCh, tickCh, timer, worker, txn, orphans, cell, gc, phase,
               boots, imports, raced>>
fileVars  == <<file, stale, writing, asked, pass, lost>>
vars      == <<storeVars, fileVars>>

NoBidID == 0     \* the API downloads for the bid ""
Paths   == Bids \cup {NoBidID}
NoFile  == -1

Contents == {"none", "part", "whole", "unchecked"}
NoPass   == [pc |-> "idle", listed |-> {}, keep |-> {}, remove |-> {}, todo |-> {}]

Present == {b \in Bids : Store!Status(b) \notin Store!Absent}
Elements(list) == {list[i] : i \in DOMAIN list}

MutantDealDataFilePathFor(id) == NoBidID   \* named after the payload only
DealDataFilePathFor(id) == id

-----------------------------------------------------------------------------
(* WriteDataURI.                                                             *)

Genuine(a) == a.end = "complete" /\ a.decodes /\ a.roots = <<Cid>>
Accepted   == {a \in Answers : NewURIError(a) = "none" /\ WriteError(a) = "none"}

Create(path) ==
  /\ file'  = [file EXCEPT ![path] = "part"]
  /\ stale' = stale \ {path}

\* What one download may end with.  A boosted download takes whatever an
\* available source sends; when it fails, for any reason, the regular one runs.
Downloads ==
  {[error   |-> IF NewURIError(a) # "none" THEN NewURIError(a) ELSE WriteError(a),
    content |-> IF Genuine(a) THEN "whole" ELSE "part"] : a \in Answers}
  \cup
  {[error |-> "none", content |-> IF Genuine(a) THEN "whole" ELSE "unchecked"] :
     a \in {b \in Answers : ChunkedDownload /\ b.status = "ok" /\ b.end = "complete"}}

\* A file that has been removed in the meantime is gone.
Close(path, download) ==
  /\ file'  = [file EXCEPT ![path] = IF @ = "none" \/ download.error # "none" THEN @
                                     ELSE download.content]
  /\ stale' = stale \ {path}

-----------------------------------------------------------------------------
(* The workers.  Downloads for a bid have a well-formed cid and an http URL. *)

Idle          == [w \in Workers |-> NoFile]
Target(w)     == DealDataFilePathFor(Store!WorkerBid(w).id)
Downloaded(w) == writing' = [writing EXCEPT ![w] = NoFile]

CreateFile(w) ==
  /\ worker[w].pc = "fetching"
  /\ writing[w] = NoFile
  /\ writing' = [writing EXCEPT ![w] = Target(w)]
  /\ Create(Target(w))
  /\ lost' = lost \ {Target(w)}
  /\ UNCHANGED <<storeVars, asked, pass>>

DownloadDone(w) ==
  /\ writing[w] # NoFile
  /\ Store!FetchDone(w)
  /\ \E d \in Downloads : d.error = "none" /\ Close(writing[w], d)
  /\ Downloaded(w)
  /\ UNCHANGED <<asked, pass, lost>>

\* A failed download leaves the file as it is.
DownloadFails(w) ==
  /\ writing[w] # NoFile
  /\ Store!FetchFails(w)
  /\ \E d \in Downloads : d.error \notin {"none", "panic"} /\ Close(writing[w], d)
  /\ Downloaded(w)
  /\ UNCHANGED <<asked, pass, lost>>

\* Too late to fetch, or the file cannot be created.
NoDownload(w) ==
  /\ writing[w] = NoFile
  /\ Store!FetchExpired(w) \/ Store!FetchFails(w)
  /\ UNCHANGED fileVars

Work(w) ==
  \/ CreateFile(w)
  \/ DownloadDone(w)
  \/ DownloadFails(w)
  \/ NoDownload(w)
  \/ /\ \/ Store!TakeJob(w)
        \/ Store!DropJob(w)
        \/ Store!ImportBegin(w)
        \/ Store!ImportFails(w)
        \/ Store!ImportDone(w)
        \/ Store!SaveOutcome(w)
        \/ Store!SaveOutcomeFails(w)
     /\ UNCHANGED fileVars

-----------------------------------------------------------------------------
(* GET /datauri: a download to the file of no bid.                           *)

RequestDataURI(r) ==
  /\ phase = "running"
  /\ r \notin asked
  /\ asked' = asked \cup {r}
  /\ Create(DealDataFilePathFor(NoBidID))
  /\ UNCHANGED <<storeVars, writing, pass, lost>>

\* A panic ends the request only.  Requests for the same payload share one
\* file: one that ends while another is under way may leave a mixture.
ReplyDataURI(r) ==
  /\ r \in asked
  /\ asked' = asked \ {r}
  /\ \E d \in Downloads :
       \/ Close(DealDataFilePathFor(NoBidID), d)
       \/ asked' # {} /\ UNCHANGED <<file, stale>>
  /\ UNCHANGED <<storeVars, writing, pass, lost>>

\* The status of the reply; the panic of a handler closes the connection.
ReplyCode(error) ==
  CASE error = "none"      -> 200
    [] BadRequest(error)   -> 400
    [] error = "panic"     -> 0
    [] OTHER               -> 500

-----------------------------------------------------------------------------
(* GC.  It lists the newest bids, deletes those that have waited for too     *)
(* long, reads the names in the directory and visits the files in order.     *)

ListedByGC == Elements(ListBids(Present, Query(0)))

GCBegin ==
  /\ Store!Up
  /\ pass.pc = "idle"
  /\ Store!GCList \/ UNCHANGED storeVars
  /\ LET finalized == {b \in ListedByGC : Store!Status(b) = "finalized"}
     IN  pass' = [pc     |-> "deleting",
                  listed |-> ListedByGC,
                  keep   |-> {DealDataFilePathFor(b) : b \in ListedByGC \ (finalized \cup gc')},
                  remove |-> {DealDataFilePathFor(b) : b \in finalized},
                  todo   |-> {}]
  /\ UNCHANGED <<file, stale, writing, asked, lost>>

GCDelete(b) == Store!GCDelete(b) /\ UNCHANGED fileVars

Visit(paths) ==
  pass' = IF paths = {} THEN NoPass ELSE [pass EXCEPT !.pc = "walking", !.todo = paths]

GCReadDirectory ==
  /\ Store!Up
  /\ pass.pc = "deleting" /\ gc = {}
  /\ Visit({p \in Paths : file[p] # "none"})
  /\ UNCHANGED <<storeVars, file, stale, writing, asked, lost>>

MutantShouldRemove(p) ==             \* does not look at keepFiles
  p \in pass.remove \/ (DiscardOrphans /\ p \in stale)

MutantKeepRecent(p) ==               \* removeFiles only counts for old files
  DiscardOrphans /\ p \in stale /\ p \notin pass.keep

ShouldRemove(p) ==
  \/ p \in pass.remove
  \/ p \notin pass.keep /\ DiscardOrphans /\ p \in stale

\* walk, called with the next path.
GCWalk ==
  /\ Store!Up
  /\ pass.pc = "walking"
  /\ \E p \in pass.todo :
       /\ Store!Oldest(p, pass.todo)
       /\ Visit(pass.todo \ {p})
       /\ IF file[p] # "none" /\ ShouldRemove(p)
          THEN /\ file'  = [file EXCEPT ![p] = "none"]
               /\ stale' = stale \ {p}
               /\ lost'  = lost \cup ({p} \cap Bids)
          ELSE UNCHANGED <<file, stale, lost>>
  /\ UNCHANGED <<storeVars, writing, asked>>

-----------------------------------------------------------------------------
Written == {writing[w] : w \in Workers}
           \cup {DealDataFilePathFor(NoBidID) : r \in asked}

MutantAge(p) ==                      \* also of a file that is not there
  /\ DiscardOrphans
  /\ p \notin stale \cup Written
  /\ stale' = stale \cup {p}
  /\ UNCHANGED <<storeVars, file, writing, asked, pass, lost>>

\* discardOrphanDealsAfter passes since the last write to p.
Age(p) ==
  /\ DiscardOrphans
  /\ file[p] # "none"
  /\ p \notin stale \cup Written
  /\ stale' = stale \cup {p}
  /\ UNCHANGED <<storeVars, file, writing, asked, pass, lost>>

\* The process ends, also by the panic of a download; files stay.
Stop ==
  /\ Store!BootFails \/ Store!Exit \/ Store!Crash
  /\ writing' = Idle
  /\ asked'   = {}
  /\ pass'    = NoPass
  /\ UNCHANGED <<file, stale, lost>>

Init ==
  /\ Store!Init
  /\ file    = [p \in Paths |-> "none"]
  /\ stale   = {}
  /\ writing = Idle
  /\ asked   = {}
  /\ pass    = NoPass
  /\ lost    = {}

Next ==
  \/ \E w \in Workers : Work(w)
  \/ \E r \in Requests : RequestDataURI(r) \/ ReplyDataURI(r)
  \/ GCBegin
  \/ \E b \in Bids : GCDelete(b)
  \/ GCReadDirectory
  \/ GCWalk
  \/ \E p \in Paths : Age(p)
  \/ Stop
  \/ /\ \/ Store!Messages
        \/ Store!Transactions
        \/ Store!Dispatch
        \/ Store!Start
        \/ \E b \in Bids : Store!OrphanEnqueue(b)
        \/ Store!BootCommit
        \/ Store!Close
     /\ UNCHANGED fileVars

Spec == Init /\ [][Next]_vars

-----------------------------------------------------------------------------
TypeOK ==
  /\ file \in [Paths -> Contents]
  /\ stale \subseteq {p \in Paths : file[p] # "none"}
  /\ writing \in [Workers -> Paths \cup {NoFile}]
  /\ asked \subseteq Requests
  /\ pass \in [pc: {"idle", "deleting", "walking"}, listed: SUBSET Bids, keep: SUBSET Paths,
               remove: SUBSET Paths, todo: SUBSET Paths]
  /\ lost \subseteq Bids

\* What Lotus is told to import for a bid is that bid's complete file: no
\* partial download of an earlier attempt or life of the process, and nothing
\* that another download wrote.  (fetchOne hands the path to ImportData
\* without another look; GC may have removed the file, see GCSparesListed.)
ImportsWholeFile ==
  \A w \in Workers :
    LET b == Store!WorkerBid(w).id
    IN  worker[w].pc \in {"fetched", "importing"} /\ b \notin raced =>
          file[b] = "whole" \/ b \in lost

\* GC never takes the file of a bid that has a job, although it listed the
\* bids long before: unless the list was too short for the bid or older than
\* the bid's download, and then only a file nobody has written for long.
GCSparesListed ==
  [][\A b \in Bids \ raced :
       Store!HasJob(b) /\ file[b] # "none" /\ file'[b] = "none"
         => b \notin pass.listed /\ b \in stale]_vars

\* A GC pass that comes to its end has removed the files of all bids that
\* were finalized when it listed them, whatever happened meanwhile.
PassRemovesFinalized ==
  [][pass.pc # "idle" /\ pass'.pc = "idle" /\ Store!Up /\ phase' = phase
       => \A p \in pass.remove \ raced : file'[p] = "none"]_vars

\* Listing page by page, each page starting from the last bid of the one
\* before, passes over no bid that is there all the time, although bids come
\* and go in between: except for one, when the last bid of a page is deleted.
PagesConnect ==
  [][db' # db /\ Present' # Present => \A o \in Orders :
       LET first  == ListBids(Present, [Query(1) EXCEPT !.order = o])
           cursor == first[1]
           second == ListBids(Present', [offset |-> cursor, order |-> o, limit |-> 1])
       IN  first # <<>> /\ cursor \in Present' =>
             \A b \in Present \cap Present' :
               Before(o, cursor, b) =>
                 \E i \in DOMAIN second :
                   Before(o, cursor, second[i]) /\ ~Before(o, b, second[i])]_vars

\* The two ways to ask the HTTP API for deals agree: GET /deals with a filter
\* shows exactly the bids that GET /deals/<id> finds in that status, as far as
\* the list reaches (the filter applies after the limit).
StatusOf == [b \in Present |-> Store!Status(b)]

DealsAgree ==
  LET shown == DealsByStatus(StatusOf, Present, {"finalized"}, Store!Statuses).bids
  IN  \A b \in Present :
        b \in Elements(shown) <=>
          /\ DealsById(Present, b).bids = <<b>>
          /\ StatusOf[b] = "finalized"
          /\ Cardinality({c \in Present : c > b}) < MaxListLimit

\* What the API reports as written is what the source sent, byte for byte,
\* whenever the source does not pad the length prefix of the header, which
\* ldRead writes anew.
AcceptedIsSent == \A a \in Accepted : Genuine(a) /\ (a.padding = 0 => SameBytes(a))
ReportedIsSent == asked # {} => AcceptedIsSent

\* "ErrInvalidCarFile indicates a given URI points to an invalid car file": a
\* CAR file without the payload cid as its only root is reported as such to
\* whoever asked for it.
InvalidCarReported ==
  asked # {} =>
    \A a \in Answers :
      /\ a.cid = "valid" /\ a.scheme = "http" /\ a.status = "ok"
      /\ a.end = "complete" /\ a.decodes /\ a.roots # <<Cid>>
      => WriteError(a) = "invalid car file" /\ ReplyCode(WriteError(a)) = 400
=============================================================================
