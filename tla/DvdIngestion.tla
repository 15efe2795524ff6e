---------------------------- MODULE DvdIngestion -----------------------------
(***************************************************************************)
(* DVD ingestion: PostMedia, PatchMedia (its DVD path) and DeleteMedia of  *)
(* the media service, the handler that moves a disc's directory out of the *)
(* inbox, and the file system it moves it in.  The module composes the     *)
(* media_dvds table and the file system with TaskLifecycle, whose actions  *)
(* it takes as the task side of its own.                                   *)
(*                                                                         *)
(* PostMedia draws a media id and a task id in the same transaction; one   *)
(* member of Tasks stands for both.  The requests of the service run in    *)
(* serializable transactions and are single steps, so that nothing is said *)
(* here of two requests that look for the same path at the same time.      *)
(***************************************************************************)
EXTENDS TaskLifecycle

CONSTANTS
  Inbox,    \* the directories inbox/dvd/<name>
  Discs,    \* contents of a directory
  Forms,    \* how clients spell a path: "relative" to the root, "absolute"
  Crashes   \* TRUE: workers die and transactions fail

ASSUME IngestionAssumption ==
  /\ NULL \notin Discs
  /\ Forms \subseteq {"relative", "absolute"}
  /\ Crashes \in BOOLEAN

VARIABLES
  path, \* media_dvds: the path of each media id, NULL without a row
  dirs, \* the disc in each directory, NULL where there is none
  step, \* per worker: how far its call of Handle is
  seen  \* per worker: the path its Handle read

handlerVars == <<step, seen>>
allVars == <<vars, path, dirs, handlerVars>>

------------------------------------------------------------------------------
(* Paths (internal/lib/config).                                            *)

MediaDvdId(t) == <<"media/dvd", t>>
MediaDirs == {MediaDvdId(t) : t \in Tasks}
Nowhere == <<"root/root">>

(* The inbox and the media directory are different directories.            *)
ASSUME PathsAssumption == Inbox \cap (MediaDirs \cup {Nowhere}) = {}

Names == [dir : Inbox, form : {"relative", "absolute"}]
MediaName(t) == [dir |-> MediaDvdId(t), form |-> "relative"]

(* Absolute puts the root in front of its argument, absolute or not.       *)
Absolute(n) == IF n.form = "relative" THEN n.dir ELSE Nowhere

(* What ListInboxDVDs returns.                                             *)
ListInboxDVDs == {[dir |-> d, form |-> "absolute"] : d \in {e \in Inbox : dirs[e] # NULL}}

IngestInit ==
  /\ Init
  /\ path = [t \in Tasks |-> NULL]
  /\ dirs = [d \in Inbox \cup MediaDirs \cup {Nowhere} |-> NULL]
  /\ step = [w \in Workers |-> "start"]
  /\ seen = [w \in Workers |-> NULL]

------------------------------------------------------------------------------
(* Users and the media service.                                            *)

(* A user puts a disc into the inbox.                                      *)
Rip(d, disc) ==
  /\ dirs[d] = NULL
  /\ \A e \in DOMAIN dirs : dirs[e] # disc
  /\ dirs' = [dirs EXCEPT ![d] = disc]
  /\ UNCHANGED <<vars, path, handlerVars>>

Taken(n, others) == \E t \in others : path[t] = n

PostMedia(t, n) ==
  /\ ~Taken(n, Tasks)
  /\ Create(t, EmptyState)
  /\ path' = [path EXCEPT ![t] = n]
  /\ UNCHANGED <<dirs, handlerVars>>

(* The handler's UPDATE holds the row until its transaction ends; what the *)
(* service wants of it meanwhile ends in a serialization error.            *)
RowLocked(t) == \E w \in Workers : /\ phase[w] = "returned" /\ job[w] = t
                                   /\ result[w].status = "completed"

PatchMedia(t, n) ==
  /\ path[t] # NULL /\ ~RowLocked(t)
  /\ ~Taken(n, Tasks \ {t})
  /\ path' = [path EXCEPT ![t] = n]
  /\ UNCHANGED <<vars, dirs, handlerVars>>

(* The media_dvds row goes with the media row; the task stays.             *)
DeleteMedia(t) ==
  /\ path[t] # NULL /\ ~RowLocked(t)
  /\ path' = [path EXCEPT ![t] = NULL]
  /\ UNCHANGED <<vars, dirs, handlerVars>>

------------------------------------------------------------------------------
(* DvdIngestionHandler.Handle, called by a worker that has claimed a task. *)

Returns(w, status) ==
  /\ Handle(w, [status |-> status, state |-> NULL, kids |-> {}])
  /\ step' = [step EXCEPT ![w] = "start"]
  /\ seen' = [seen EXCEPT ![w] = NULL]

SelectPath(w) ==
  /\ phase[w] = "assigned" /\ step[w] = "start"
  /\ path[job[w]] # NULL
  /\ step' = [step EXCEPT ![w] = "selected"]
  /\ seen' = [seen EXCEPT ![w] = path[job[w]]]
  /\ UNCHANGED <<vars, path, dirs>>

SelectFails(w) ==
  /\ phase[w] = "assigned" /\ step[w] = "start"
  /\ path[job[w]] = NULL
  /\ Returns(w, "failed")
  /\ UNCHANGED <<path, dirs>>

(* Mutant: a rename that replaces what is at the new path.                 *)
CanRename_Replace(old, new) == dirs[old] # NULL

(* os.Rename of directories: the old one exists and the new one does not.  *)
CanRename(old, new) == dirs[old] # NULL /\ dirs[new] = NULL

Rename(w) ==
  LET old == Absolute(seen[w])
      new == MediaDvdId(job[w]) IN
  /\ phase[w] = "assigned" /\ step[w] = "selected"
  /\ CanRename(old, new)
  /\ dirs' = [dirs EXCEPT ![old] = NULL, ![new] = dirs[old]]
  /\ step' = [step EXCEPT ![w] = "renamed"]
  /\ UNCHANGED <<vars, path, seen>>

(* Mutant: the handler goes on when the rename has failed.                 *)
RenameFails_Ignored(w) ==
  /\ phase[w] = "assigned" /\ step[w] = "selected"
  /\ ~CanRename(Absolute(seen[w]), MediaDvdId(job[w]))
  /\ Returns(w, "completed")
  /\ UNCHANGED <<path, dirs>>

RenameFails(w) ==
  /\ phase[w] = "assigned" /\ step[w] = "selected"
  /\ ~CanRename(Absolute(seen[w]), MediaDvdId(job[w]))
  /\ Returns(w, "failed")
  /\ UNCHANGED <<path, dirs>>

(* The UPDATE of media_dvds; it shows when the transaction commits.        *)
UpdatePath(w) ==
  /\ phase[w] = "assigned" /\ step[w] = "renamed"
  /\ Returns(w, "completed")
  /\ UNCHANGED <<path, dirs>>

(* Mutant: the absolute path is stored instead of the relative one.        *)
CommitIngestion_StoreAbsolute(w) ==
  /\ phase[w] = "returned"
  /\ path' = IF result[w].status = "completed" /\ path[job[w]] # NULL
             THEN [path EXCEPT ![job[w]] = [MediaName(job[w]) EXCEPT !.form = "absolute"]]
             ELSE path
  /\ Commit(w)
  /\ UNCHANGED <<dirs, handlerVars>>

CommitIngestion(w) ==
  /\ phase[w] = "returned"
  /\ path' = IF result[w].status = "completed" /\ path[job[w]] # NULL
             THEN [path EXCEPT ![job[w]] = MediaName(job[w])] ELSE path
  /\ Commit(w)
  /\ UNCHANGED <<dirs, handlerVars>>

(* The transaction of worker w is rolled back, by an error or because the  *)
(* process died (worker w then is a worker of its successor).  What the    *)
(* handler did to the file system stays.                                   *)
RollBack(w) ==
  /\ Crashes
  /\ Abandon(w)
  /\ step' = [step EXCEPT ![w] = "start"]
  /\ seen' = [seen EXCEPT ![w] = NULL]
  /\ UNCHANGED <<path, dirs>>

------------------------------------------------------------------------------

(* Clients name an inbox directory relative to the root, or by what        *)
(* ListInboxDVDs has returned for it.  The service accepts every path that *)
(* is not empty; one that names another media's final directory is outside *)
(* the model.                                                              *)
Clientside == {n \in Names : /\ n.form \in Forms
                             /\ n.form = "absolute" => n \in ListInboxDVDs}

Service ==
  \/ \E d \in Inbox, disc \in Discs : Rip(d, disc)
  \/ \E t \in Tasks, n \in Clientside : PostMedia(t, n) \/ PatchMedia(t, n)
  \/ \E t \in Tasks : DeleteMedia(t)

Handler ==
  \E w \in Workers :
    \/ SelectPath(w) \/ SelectFails(w) \/ Rename(w) \/ RenameFails(w)
    \/ UpdatePath(w) \/ CommitIngestion(w) \/ RollBack(w)

TaskSystem ==
  /\ \/ \E w \in Workers, t \in Tasks : Claim(w, t) \/ (Crashes /\ ClaimLost(w, t))
     \/ \E w \in Workers : renewLease(w)
     \/ \E t \in Tasks : LeaseExpires(t)
  /\ UNCHANGED <<path, dirs, handlerVars>>

IngestNext == Service \/ Handler \/ TaskSystem

IngestSpec == IngestInit /\ [][IngestNext]_allVars

------------------------------------------------------------------------------
(* Properties.                                                             *)

(* Types of the task side, of media_dvds (paths as PostMedia and the handler *)
(* write them) and of the file system.                                     *)
IngestTypeOK ==
  /\ TypeOK
  /\ path \in [Tasks -> Names \cup {MediaName(t) : t \in Tasks} \cup {NULL}]
  /\ dirs \in [Inbox \cup MediaDirs \cup {Nowhere} -> Discs \cup {NULL}]
  /\ step \in [Workers -> {"start", "selected", "renamed"}]
  /\ seen \in [Workers -> Names \cup {MediaName(t) : t \in Tasks} \cup {NULL}]

(* An ingestion that is reported done has its disc at media/dvd/<id>, also *)
(* when it was retried after a crash, raced with a patch of the path, or   *)
(* with the deletion of the media.                                         *)
DoneIsMoved ==
  \A t \in Tasks : tasks[t].status = "completed" => dirs[MediaDvdId(t)] # NULL

(* No ingestion overwrites a disc, even one that runs again after the user *)
(* has put another disc under the same inbox name: the disc is still there.*)
DiscsSurvive ==
  [][\A disc \in Discs : (\E d \in DOMAIN dirs : dirs[d] = disc)
                           => (\E d \in DOMAIN dirs : dirs'[d] = disc)]_allVars

(* "StatusFailed: task encountered a permanent error" (types.go): the      *)
(* ingestion of a disc that was moved to its final place has not failed.   *)
FailedIsNotMoved ==
  \A t \in Tasks : tasks[t].status = "failed" => dirs[MediaDvdId(t)] = NULL
=============================================================================
