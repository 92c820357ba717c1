---------------------------- MODULE ImageDownload ----------------------------
(***************************************************************************)
(* Parallel downloads of one image (apollo/daemon_images.go, the map       *)
(* imagesDownloading) together with the deletion of that image             *)
(* (apollo/images.go, imageDelete).                                        *)
(*                                                                         *)
(* A download looks the image up in the database, joins a download of it   *)
(* that is under way or queues itself, writes the file, inserts the row,   *)
(* and imports the image into the storage pool it was asked for.  The lock *)
(* of the map is held for the look and again for the insertion, not        *)
(* between the two.                                                        *)
(*                                                                         *)
(* "full" is the fingerprint of the image, "part" a prefix of it.  Only a  *)
(* download of a private image may be keyed by a prefix: the others expand *)
(* it first.  The metadata file and the .rootfs file of an image are       *)
(* created and removed together and stand for one file.                    *)
(***************************************************************************)
EXTENDS Naturals

CONSTANTS
  Downloader,   \* calls of ImageDownload
  Deleter,      \* calls of imageDelete
  None, Whole,  \* no channel, row or file; a file that is all there
  Private,      \* the downloads that may be of a private image, by a prefix
  Want          \* the storage pool each download was given, or None

Key == {"full", "part"}

ASSUME ConstantsAssumption ==
  /\ None \notin Downloader /\ Whole \notin Downloader /\ None # Whole
  /\ Downloader \cap Deleter = {}
  /\ Private \subseteq Downloader

VARIABLES
  imagesDownloading,   \* key -> the channel, named by the call that made it
  closes,              \* how often each channel was closed
  row, nextId,         \* id of the image's row in the database
  file,                \* name -> None, Whole, or the call writing it
  pools,               \* the pools that have a volume of the image
  asked,               \* the key each download was given, also the name of its file
  pc, fp, ch, failure, ok,   \* of the downloads
  dpc, imgID           \* of the deletions

queueVars == <<imagesDownloading, closes>>
dbVars == <<row, nextId>>
callVars == <<asked, pc, fp, ch, failure, ok>>
delVars == <<dpc, imgID>>
vars == <<queueVars, dbVars, file, pools, callVars, delVars>>

Init ==
  /\ imagesDownloading = [k \in Key |-> None]
  /\ closes = [d \in Downloader |-> 0]
  /\ row = None /\ nextId = 1
  /\ file = [k \in Key |-> None]
  /\ pools = {}
  /\ pc = [d \in Downloader |-> "lookup"]
  /\ asked \in {a \in [Downloader -> Key] : \A d \in Downloader \ Private : a[d] = "full"}
  /\ fp = asked
  /\ ch = [d \in Downloader |-> None]
  /\ failure = [d \in Downloader |-> TRUE]
  /\ ok = [d \in Downloader |-> FALSE]
  /\ dpc = [x \in Deleter |-> "lookup"]
  /\ imgID = [x \in Deleter |-> None]

Goto(d, l) == pc' = [pc EXCEPT ![d] = l]

\* dbImageGet with strictMatching: a prefix is not found.
InDB(k) == k = "full" /\ row # None

Succeeds(d) ==
  /\ Goto(d, "end")
  /\ ok' = [ok EXCEPT ![d] = TRUE]

(***************************************************************************)
(* The image may be there already; a pool that lacks it gets it.           *)
(***************************************************************************)
Lookup(d) ==
  /\ pc[d] = "lookup"
  /\ IF ~InDB(fp[d]) THEN Goto(d, "peek") /\ UNCHANGED ok
     ELSE IF Want[d] = None THEN Succeeds(d)
     ELSE Goto(d, "pool") /\ UNCHANGED ok
  /\ UNCHANGED <<queueVars, dbVars, file, pools, fp, ch, failure, asked, delVars>>

PoolImport(d) ==
  /\ pc[d] = "pool"
  /\ \/ pools' = pools \cup {Want[d]} /\ Succeeds(d)
     \/ Goto(d, "end") /\ UNCHANGED <<pools, ok>>
  /\ UNCHANGED <<queueVars, dbVars, file, fp, ch, failure, asked, delVars>>

(***************************************************************************)
(* "Deal with parallel downloads": wait for the channel found in the map,  *)
(* then look the image up again; if it is not there, go on and download.   *)
(***************************************************************************)
Peek(d) ==
  /\ pc[d] = "peek"
  /\ ch' = [ch EXCEPT ![d] = imagesDownloading[fp[d]]]
  /\ Goto(d, IF ch'[d] = None THEN "queue" ELSE "wait")
  /\ UNCHANGED <<queueVars, dbVars, file, pools, fp, failure, ok, asked, delVars>>

Awake(d) ==
  /\ pc[d] = "wait"
  /\ closes[ch[d]] > 0
  /\ Goto(d, "grab")
  /\ UNCHANGED <<queueVars, dbVars, file, pools, fp, ch, failure, ok, asked, delVars>>

Grab(d) ==
  /\ pc[d] = "grab"
  /\ IF InDB(fp[d]) THEN Succeeds(d) ELSE Goto(d, "queue") /\ UNCHANGED ok
  /\ UNCHANGED <<queueVars, dbVars, file, pools, fp, ch, failure, asked, delVars>>

\* "Add the download to the queue", over whatever is there by now.
Queue(d) ==
  /\ pc[d] = "queue"
  /\ imagesDownloading' = [imagesDownloading EXCEPT ![fp[d]] = d]
  /\ Goto(d, "create")
  /\ UNCHANGED <<closes, dbVars, file, pools, fp, ch, failure, ok, asked, delVars>>

(***************************************************************************)
(* The download itself.  os.Create truncates the file of another download  *)
(* of the same image: it is whole again when the last to truncate it has   *)
(* written it all.                                                         *)
(***************************************************************************)
Create(d) ==
  /\ pc[d] = "create"
  /\ \/ /\ file' = [file EXCEPT ![asked[d]] = d]
        /\ Goto(d, IF asked[d] = "part" THEN "info" ELSE "fetch")
     \/ Goto(d, "cleanup") /\ UNCHANGED file
  /\ UNCHANGED <<queueVars, dbVars, pools, fp, ch, failure, ok, asked, delVars>>

\* GetPrivateImage: "Expand the fingerprint now".
ExpandFingerprint(d) ==
  /\ pc[d] = "info"
  /\ \/ fp' = [fp EXCEPT ![d] = "full"] /\ Goto(d, "fetch")
     \/ Goto(d, "cleanup") /\ UNCHANGED fp
  /\ UNCHANGED <<queueVars, dbVars, file, pools, ch, failure, ok, asked, delVars>>

Fetch(d) ==
  /\ pc[d] = "fetch"
  /\ \/ /\ file' = IF file[asked[d]] = d
                   THEN [file EXCEPT ![asked[d]] = Whole] ELSE file
        /\ Goto(d, "insert")
     \/ Goto(d, "cleanup") /\ UNCHANGED file
  /\ UNCHANGED <<queueVars, dbVars, pools, fp, ch, failure, ok, asked, delVars>>

\* Faulty form: failure is not reset, so a later error wipes the files.
InsertStillFailing(d) ==
  /\ pc[d] = "insert"
  /\ IF row = None
     THEN row' = nextId /\ nextId' = nextId + 1 /\ Goto(d, "source")
     ELSE Goto(d, "cleanup") /\ UNCHANGED dbVars
  /\ UNCHANGED <<queueVars, file, pools, fp, ch, failure, ok, asked, delVars>>

\* dbImageInsert: the fingerprint is UNIQUE.
Insert(d) ==
  /\ pc[d] = "insert"
  /\ IF row = None
     THEN /\ row' = nextId /\ nextId' = nextId + 1
          /\ failure' = [failure EXCEPT ![d] = FALSE]
          /\ Goto(d, "source")
     ELSE Goto(d, "cleanup") /\ UNCHANGED <<dbVars, failure>>
  /\ UNCHANGED <<queueVars, file, pools, fp, ch, ok, asked, delVars>>

\* dbImageSourceInsert, for an image that was asked for by an alias.
RecordSource(d) ==
  /\ pc[d] = "source"
  /\ Goto(d, "import") \/ Goto(d, "cleanup")
  /\ UNCHANGED <<queueVars, dbVars, file, pools, fp, ch, failure, ok, asked, delVars>>

Import(d) ==
  /\ pc[d] = "import"
  /\ \/ /\ pools' = IF Want[d] = None THEN pools ELSE pools \cup {Want[d]}
        /\ Goto(d, "mark")
     \/ Want[d] # None /\ Goto(d, "cleanup") /\ UNCHANGED pools
  /\ UNCHANGED <<queueVars, dbVars, file, fp, ch, failure, ok, asked, delVars>>

MarkCached(d) ==
  /\ pc[d] = "mark"
  /\ \E b \in BOOLEAN : ok' = [ok EXCEPT ![d] = b]
  /\ Goto(d, "cleanup")
  /\ UNCHANGED <<queueVars, dbVars, file, pools, fp, ch, failure, asked, delVars>>

(***************************************************************************)
(* The deferred functions, last one first.                                 *)
(***************************************************************************)
Cleanup(d) ==
  /\ pc[d] = "cleanup"
  /\ file' = IF failure[d] THEN [file EXCEPT ![asked[d]] = None] ELSE file
  /\ Goto(d, "unlock")
  /\ UNCHANGED <<queueVars, dbVars, pools, fp, ch, failure, ok, asked, delVars>>

\* Faulty form: the channel is closed and stays in the map.
UnlockKeeps(d) ==
  /\ pc[d] = "unlock"
  /\ LET c == imagesDownloading[fp[d]] IN
       closes' = IF c = None THEN closes ELSE [closes EXCEPT ![c] = @ + 1]
  /\ Goto(d, "end")
  /\ UNCHANGED <<imagesDownloading, dbVars, file, pools, fp, ch, failure, ok, asked, delVars>>

\* Faulty form: a download that failed leaves its entry, and nobody is woken.
UnlockOnSuccess(d) ==
  /\ pc[d] = "unlock"
  /\ LET c == imagesDownloading[fp[d]] IN
       closes' = IF c = None \/ failure[d] THEN closes ELSE [closes EXCEPT ![c] = @ + 1]
  /\ imagesDownloading' =
       IF failure[d] THEN imagesDownloading ELSE [imagesDownloading EXCEPT ![fp[d]] = None]
  /\ Goto(d, "end")
  /\ UNCHANGED <<dbVars, file, pools, fp, ch, failure, ok, asked, delVars>>

\* "Unlock once this func ends."
Unlock(d) ==
  /\ pc[d] = "unlock"
  /\ LET c == imagesDownloading[fp[d]] IN
       closes' = IF c = None THEN closes ELSE [closes EXCEPT ![c] = @ + 1]
  /\ imagesDownloading' = [imagesDownloading EXCEPT ![fp[d]] = None]
  /\ Goto(d, "end")
  /\ UNCHANGED <<dbVars, file, pools, fp, ch, failure, ok, asked, delVars>>

(***************************************************************************)
(* imageDelete: the row, the volumes, the files by name, the row by id.    *)
(***************************************************************************)
DelGoto(x, l) == dpc' = [dpc EXCEPT ![x] = l]

DeleteLookup(x) ==
  /\ dpc[x] = "lookup"
  /\ imgID' = [imgID EXCEPT ![x] = row]
  /\ DelGoto(x, IF row = None THEN "end" ELSE "pools")
  /\ UNCHANGED <<queueVars, dbVars, file, pools, callVars>>

DeleteFromPools(x) ==
  /\ dpc[x] = "pools"
  /\ \/ pools' = {} /\ DelGoto(x, "files")
     \/ DelGoto(x, "end") /\ UNCHANGED pools
  /\ UNCHANGED <<queueVars, dbVars, file, callVars, imgID>>

DeleteFiles(x) ==
  /\ dpc[x] = "files"
  /\ file' = [file EXCEPT !["full"] = None]
  /\ DelGoto(x, "row")
  /\ UNCHANGED <<queueVars, dbVars, pools, callVars, imgID>>

DeleteRow(x) ==
  /\ dpc[x] = "row"
  /\ row' = IF row = imgID[x] THEN None ELSE row
  /\ DelGoto(x, "end")
  /\ UNCHANGED <<queueVars, nextId, file, pools, callVars, imgID>>

-----------------------------------------------------------------------------
Download(d) ==
  \/ Lookup(d) \/ PoolImport(d) \/ Peek(d) \/ Awake(d) \/ Grab(d) \/ Queue(d)
  \/ Create(d) \/ ExpandFingerprint(d) \/ Fetch(d) \/ Insert(d)
  \/ RecordSource(d) \/ Import(d) \/ MarkCached(d) \/ Cleanup(d) \/ Unlock(d)

Delete(x) ==
  DeleteLookup(x) \/ DeleteFromPools(x) \/ DeleteFiles(x) \/ DeleteRow(x)

Next ==
  \/ \E d \in Downloader : Download(d)
  \/ \E x \in Deleter : Delete(x)

Spec == Init /\ [][Next]_vars

\* A call that can go on does: transfers end, with the image or an error.
FairSpec == Spec /\ \A d \in Downloader : WF_vars(Download(d))

-----------------------------------------------------------------------------
Id == Nat \cup {None}

TypeOK ==
  /\ imagesDownloading \in [Key -> Downloader \cup {None}]
  /\ closes \in [Downloader -> Nat]
  /\ row \in Id /\ nextId \in Nat
  /\ file \in [Key -> Downloader \cup {None, Whole}]
  /\ pools \subseteq {Want[d] : d \in Downloader}
  /\ pc \in [Downloader -> {"lookup", "pool", "peek", "wait", "grab", "queue",
                            "create", "info", "fetch", "insert", "source",
                            "import", "mark", "cleanup", "unlock", "end"}]
  /\ asked \in [Downloader -> Key] /\ fp \in [Downloader -> Key]
  /\ ch \in [Downloader -> Downloader \cup {None}]
  /\ \A d \in Downloader : pc[d] = "wait" => ch[d] # None
  /\ failure \in [Downloader -> BOOLEAN] /\ ok \in [Downloader -> BOOLEAN]
  /\ dpc \in [Deleter -> {"lookup", "pools", "files", "row", "end"}]
  /\ imgID \in [Deleter -> Id]

\* A channel is closed at most once, although downloads close the channel
\* they find in the map and not the one they made: a second close is a panic.
ChannelClosedOnce == \A d \in Downloader : closes[d] <= 1

\* A download that has put itself into the map and not yet taken the entry out.
Queued(d) ==
  pc[d] \in {"create", "info", "fetch", "insert", "source", "import", "mark",
             "cleanup", "unlock"}

\* While the map says that an image is being downloaded under its fingerprint,
\* some download of it is under way that will remove the entry: no later
\* request can wait on an entry that was left behind.
EntryHasOwner ==
  imagesDownloading["full"] # None =>
    \E d \in Downloader : Queued(d) /\ fp[d] = "full"

FileThere ==
  row # None /\ (\A x \in Deleter : dpc[x] # "row") => file["full"] = Whole

\* A single download has begun, of an image given by its whole fingerprint.
Alone ==
  \A d \in Downloader :
    pc[d] # "lookup" => asked[d] = "full" /\ \A e \in Downloader \ {d} : pc[e] = "lookup"

\* An image that is in the database and not being deleted has its file, as
\* long as a single download has begun: its cleanup does not take the file
\* from a row, however it fails and whoever deletes the image meanwhile.
ImageFileThere == Alone => FileThere

\* A channel somebody made that is in the map no more and was not closed: a
\* later download queued itself over it.
Overwritten(c) == closes[c] = 0 /\ \A k \in Key : imagesDownloading[k] # c

\* Every download ends, but for one that waits on a channel that was overwritten
\* in the map: the look and the insertion are apart, so of three downloads the
\* second may queue itself over the channel the third waits on.
DownloadsEnd ==
  \A d \in Downloader :
    <>(pc[d] = "end" \/ (pc[d] = "wait" /\ Overwritten(ch[d])))

-----------------------------------------------------------------------------
(* The instance for TLC. *)

\* One pool for all.
WantPool == [d \in Downloader |-> "pool"]
=============================================================================
