-------------------------- MODULE FileTransferQueue --------------------------
(***************************************************************************)
(* File sharing of one StdVideoChatRoom ChatApp instance (app.js).         *)
(*                                                                         *)
(* processFiles validates a batch the user picked and appends the valid     *)
(* files to uploadQueue; processUploadQueue is a single async worker,       *)
(* guarded by isUploading, that shifts one file at a time, awaits its       *)
(* XMLHttpRequest (load, error or the 30 s timeout) and then a 500 ms       *)
(* pacing delay.  A successful upload arms a 500 ms timer that reloads the  *)
(* file list; so do room_users (updateUI), opening the files tab and every  *)
(* file_uploaded envelope.  loadFileList awaits fetch and displays whatever *)
(* the response holds, in the order the responses arrive.                  *)
(*                                                                         *)
(* The HTTP server and the other participants are the environment: the     *)
(* server stores an upload at some point while its request is open, and    *)
(* answers a list request with the files stored when it handles it.        *)
(***************************************************************************)
EXTENDS Integers, Sequences, SequencesExt, FiniteSets

CONSTANTS
  OwnFiles,     \* files this client's user may pick
  OtherFiles,   \* files other participants upload to the room
  Invalid,      \* own files over 10 MB or of a type not in ALLOWED_TYPES
  MaxLoads,     \* loadFileList calls in one behaviour
  Undefined     \* what uploadQueue.shift() returns on an empty queue

ASSUME Invalid \subseteq OwnFiles /\ OwnFiles \cap OtherFiles = {}
ASSUME MaxLoads \in Nat \ {0} /\ Undefined \notin OwnFiles

Files == OwnFiles \cup OtherFiles
Loads == 1..MaxLoads

\* The two checks of processFiles: size <= MAX_FILE_SIZE and an allowed type.
Valid(f) == f \notin Invalid

VARIABLES
  inRoom,        \* currentRoom and currentUserId are set
  picked,        \* own files already handed to processFiles
  uploadQueue,   \* this.uploadQueue
  isUploading,   \* this.isUploading
  worker,        \* where processUploadQueue is suspended: idle, upload, pace
  xhr,           \* files whose upload request is open
  settled,       \* own files whose uploadFile promise has settled
  refreshTimers, \* armed 500 ms loadFileList timers
  stored,        \* the server's files of the room
  issued,        \* loadFileList requests sent so far
  loads,         \* each request: [st |-> sent/answered/done, snap |-> files]
  shown,         \* the list in #fileItems (displayFileList)
  inbox,         \* file_uploaded envelopes not yet handled
  failed         \* some upload or list request has failed (history)

vars == <<inRoom, picked, uploadQueue, isUploading, worker, xhr, settled,
          refreshTimers, stored, issued, loads, shown, inbox, failed>>

TypeOK ==
  /\ inRoom \in BOOLEAN
  /\ picked \subseteq OwnFiles
  /\ uploadQueue \in Seq(OwnFiles)
  /\ isUploading \in BOOLEAN
  /\ worker \in {"idle", "upload", "pace"}
  /\ xhr \subseteq OwnFiles
  /\ settled \subseteq OwnFiles
  /\ refreshTimers \in 0..Cardinality(OwnFiles)
  /\ stored \subseteq Files
  /\ issued \in 0..MaxLoads
  /\ loads \in [Loads -> [st : {"unused", "sent", "answered", "done"},
                          snap : SUBSET Files]]
  /\ shown \subseteq Files
  /\ inbox \in Seq(OtherFiles)
  /\ failed \in BOOLEAN

-----------------------------------------------------------------------------
(* The upload worker                                                       *)

\* Array.prototype.shift: the element it returns and the array it leaves.
Shift(q) == IF q = << >> THEN Undefined ELSE Head(q)
Shifted(q) == IF q = << >> THEN q ELSE Tail(q)

\* const file = this.uploadQueue.shift(); await this.uploadFile(file): the
\* synchronous part of uploadFile opens and sends the request.
SendUpload(q) ==
  /\ uploadQueue' = Shifted(q)
  /\ xhr' = xhr \cup {Shift(q)}
  /\ worker' = "upload"

\* Mutant of ProcessUploadQueue: no isUploading check.
ProcessUploadQueueUnguarded(q) ==
  IF q = << >>
    THEN /\ uploadQueue' = q
         /\ UNCHANGED <<isUploading, worker, xhr>>
    ELSE /\ isUploading' = TRUE
         /\ SendUpload(q)

\* processUploadQueue() called with the queue q: it returns at once when a
\* worker runs or q is empty, otherwise it becomes the worker and runs up to
\* the first await.
ProcessUploadQueue(q) ==
  IF isUploading \/ q = << >>
    THEN /\ uploadQueue' = q
         /\ UNCHANGED <<isUploading, worker, xhr>>
    ELSE /\ isUploading' = TRUE
         /\ SendUpload(q)

\* loadFileList() up to its await: nothing without a room, else a request.
LoadFileList ==
  IF inRoom
    THEN /\ issued' = issued + 1
         /\ loads' = [loads EXCEPT ![issued + 1] = [st |-> "sent", snap |-> {}]]
    ELSE UNCHANGED <<issued, loads>>

\* The bound on list requests, for the steps that call loadFileList.
CanLoad == inRoom => issued < MaxLoads

\* handleFileSelect/handleDrop -> processFiles(files): without a room only
\* an error is shown; otherwise the valid files of the batch, in the order
\* picked, are appended and processUploadQueue is called.
PickFiles ==
  \E batch \in SetToAllKPermutations(OwnFiles \ picked) \ {<< >>} :
    /\ picked' = picked \cup Range(batch)
    /\ IF inRoom
         THEN ProcessUploadQueue(uploadQueue \o SelectSeq(batch, Valid))
         ELSE UNCHANGED <<uploadQueue, isUploading, worker, xhr>>
    /\ UNCHANGED <<inRoom, settled, refreshTimers, stored, issued, loads,
                   shown, inbox, failed>>

\* xhr load with status 200: the refresh timer is armed and the promise
\* resolves; the worker resumes into its 500 ms pacing delay.
UploadSucceeds(f) ==
  /\ f \in xhr /\ f \in stored
  /\ xhr' = xhr \ {f}
  /\ settled' = settled \cup {f}
  /\ refreshTimers' = refreshTimers + 1
  /\ worker' = "pace"
  /\ UNCHANGED <<inRoom, picked, uploadQueue, isUploading, stored, issued,
                 loads, shown, inbox, failed>>

\* xhr error, timeout or a non-200 load: the promise rejects, the worker's
\* catch shows the error and goes on to the pacing delay.  The server may
\* have stored the file already.
UploadFails(f) ==
  /\ f \in xhr
  /\ xhr' = xhr \ {f}
  /\ settled' = settled \cup {f}
  /\ worker' = "pace"
  /\ failed' = TRUE
  /\ UNCHANGED <<inRoom, picked, uploadQueue, isUploading, refreshTimers,
                 stored, issued, loads, shown, inbox>>

\* Mutant of PaceDone: the loop body runs again without the length check.
PaceDoneNoEmptyCheck ==
  /\ worker = "pace"
  /\ SendUpload(uploadQueue)
  /\ UNCHANGED <<inRoom, picked, isUploading, settled, refreshTimers, stored,
                 issued, loads, shown, inbox, failed>>

\* Mutant of PaceDone: the worker leaves after one file.
PaceDoneOnce ==
  /\ worker = "pace"
  /\ isUploading' = FALSE
  /\ worker' = "idle"
  /\ UNCHANGED <<inRoom, picked, uploadQueue, xhr, settled, refreshTimers,
                 stored, issued, loads, shown, inbox, failed>>

\* The pacing delay ends: while (uploadQueue.length > 0) goes round again,
\* or the loop ends and isUploading is cleared.
PaceDone ==
  /\ worker = "pace"
  /\ IF uploadQueue # << >>
       THEN /\ SendUpload(uploadQueue)
            /\ UNCHANGED isUploading
       ELSE /\ isUploading' = FALSE
            /\ worker' = "idle"
            /\ UNCHANGED <<uploadQueue, xhr>>
  /\ UNCHANGED <<inRoom, picked, settled, refreshTimers, stored, issued,
                 loads, shown, inbox, failed>>

-----------------------------------------------------------------------------
(* The file list                                                           *)

\* The 500 ms timer armed by a successful upload: loadFileList().
RefreshTimerFires ==
  /\ refreshTimers > 0 /\ CanLoad
  /\ refreshTimers' = refreshTimers - 1
  /\ LoadFileList
  /\ UNCHANGED <<inRoom, picked, uploadQueue, isUploading, worker, xhr,
                 settled, stored, shown, inbox, failed>>

\* switchTab('files'): loadFileList().
OpenFilesTab ==
  /\ inRoom /\ CanLoad
  /\ LoadFileList
  /\ UNCHANGED <<inRoom, picked, uploadQueue, isUploading, worker, xhr,
                 settled, refreshTimers, stored, shown, inbox, failed>>

\* handleMessage case file_uploaded -> handleFileUploaded: loadFileList().
HandleFileUploaded ==
  /\ inbox # << >> /\ CanLoad
  /\ inbox' = Tail(inbox)
  /\ LoadFileList
  /\ UNCHANGED <<inRoom, picked, uploadQueue, isUploading, worker, xhr,
                 settled, refreshTimers, stored, shown, failed>>

\* fetch and response.json resolve: displayFileList(data.files).
LoadResolves(l) ==
  /\ loads[l].st = "answered"
  /\ shown' = loads[l].snap
  /\ loads' = [loads EXCEPT ![l].st = "done"]
  /\ UNCHANGED <<inRoom, picked, uploadQueue, isUploading, worker, xhr,
                 settled, refreshTimers, stored, issued, inbox, failed>>

\* fetch rejects or !response.ok: the error is logged, the list is kept.
LoadFails(l) ==
  /\ loads[l].st \in {"sent", "answered"}
  /\ loads' = [loads EXCEPT ![l].st = "done"]
  /\ failed' = TRUE
  /\ UNCHANGED <<inRoom, picked, uploadQueue, isUploading, worker, xhr,
                 settled, refreshTimers, stored, issued, shown, inbox>>

\* leaveRoom(): the room is cleared and the socket closed, so no envelope
\* arrives any more.  uploadQueue, isUploading and the timers are left alone.
LeaveRoom ==
  /\ inRoom
  /\ inRoom' = FALSE
  /\ inbox' = << >>
  /\ UNCHANGED <<picked, uploadQueue, isUploading, worker, xhr, settled,
                 refreshTimers, stored, issued, loads, shown, failed>>

-----------------------------------------------------------------------------
(* The server and the other participants                                   *)

\* POST /api/upload is handled: the file is stored.
ServerStores(f) ==
  /\ f \in xhr /\ f \notin stored
  /\ stored' = stored \cup {f}
  /\ UNCHANGED <<inRoom, picked, uploadQueue, isUploading, worker, xhr,
                 settled, refreshTimers, issued, loads, shown, inbox, failed>>

\* GET /api/files/{room} is handled: the answer holds the stored files.
ServerLists(l) ==
  /\ loads[l].st = "sent"
  /\ loads' = [loads EXCEPT ![l] = [st |-> "answered", snap |-> stored]]
  /\ UNCHANGED <<inRoom, picked, uploadQueue, isUploading, worker, xhr,
                 settled, refreshTimers, stored, issued, shown, inbox, failed>>

\* Another participant uploads f; the server tells the room (file_uploaded).
OtherUploads(f) ==
  /\ f \notin stored
  /\ stored' = stored \cup {f}
  /\ inbox' = IF inRoom THEN Append(inbox, f) ELSE inbox
  /\ UNCHANGED <<inRoom, picked, uploadQueue, isUploading, worker, xhr,
                 settled, refreshTimers, issued, loads, shown, failed>>

-----------------------------------------------------------------------------

\* Just after room_users: updateUI has called loadFileList once.
Init ==
  /\ inRoom = TRUE
  /\ picked = {}
  /\ uploadQueue = << >>
  /\ isUploading = FALSE
  /\ worker = "idle"
  /\ xhr = {}
  /\ settled = {}
  /\ refreshTimers = 0
  /\ stored = {}
  /\ issued = 1
  /\ loads = [l \in Loads |-> [st |-> IF l = 1 THEN "sent" ELSE "unused",
                              snap |-> {}]]
  /\ shown = {}
  /\ inbox = << >>
  /\ failed = FALSE

Client ==
  \/ PickFiles \/ PaceDone \/ LeaveRoom
  \/ \E f \in OwnFiles : UploadSucceeds(f) \/ UploadFails(f)
  \/ RefreshTimerFires \/ OpenFilesTab \/ HandleFileUploaded
  \/ \E l \in Loads : LoadResolves(l) \/ LoadFails(l)

Environment ==
  \/ \E f \in OwnFiles : ServerStores(f)
  \/ \E l \in Loads : ServerLists(l)
  \/ \E f \in OtherFiles : OtherUploads(f)

Next == Client \/ Environment

Spec == Init /\ [][Next]_vars

\* The event loop runs the worker's continuations and the timers; every
\* request ends in a load, an error or the 30 s timeout; the server answers.
FairSpec ==
  /\ Spec
  /\ WF_vars(PaceDone)
  /\ \A f \in OwnFiles : WF_vars(UploadFails(f)) /\ WF_vars(ServerStores(f))
  /\ \A l \in Loads : WF_vars(ServerLists(l)) /\ WF_vars(LoadResolves(l))

-----------------------------------------------------------------------------
(* Properties                                                              *)

\* Nothing is pending that could still change the displayed list.
Quiet ==
  /\ worker = "idle" /\ xhr = {} /\ refreshTimers = 0 /\ inbox = << >>
  /\ \A l \in Loads : loads[l].st \in {"unused", "done"}

\* At most one upload request is open at a time, whatever batches the user
\* adds while the worker waits for a response or its pacing delay
\* (isUploading in processUploadQueue).
SingleUploadInFlight == Cardinality(xhr) <= 1

\* The file being uploaded, if any, followed by the queue: the files the
\* worker still has to finish, in the order it will take them.
InFlight == IF xhr = {} THEN << >> ELSE << CHOOSE f \in xhr : TRUE >>

Serial == INSTANCE SerialUploads
            WITH Uploadable <- {f \in OwnFiles : Valid(f)},
                 pending <- InFlight \o uploadQueue,
                 done <- settled

\* The worker implements the serial upload line of spec 4.5: only valid
\* files are accepted, they are uploaded one at a time in the order picked,
\* and each is eventually finished (processFiles, processUploadQueue,
\* uploadFile's listeners).
SerialUploadsRefined == Serial!Spec

\* When every upload and list request has succeeded, once nothing is
\* pending the list shown in the room is the server's: the reloads after an
\* upload, a file_uploaded or the files tab leave the latest list on screen
\* (loadFileList, displayFileList).
FileListConverges == (inRoom /\ Quiet /\ ~failed) => shown = stored
=============================================================================
