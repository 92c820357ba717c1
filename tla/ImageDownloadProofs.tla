------------------------- MODULE ImageDownloadProofs -------------------------
(***************************************************************************)
(* Proofs about ImageDownload, for any number of downloads and deletions.  *)
(*                                                                         *)
(* QueueInv says which channels may still be in the map: a channel that is *)
(* there is open and there once, and a download that has not queued itself *)
(* has not made its channel yet.  SoleInv follows a single download        *)
(* through its insertion.                                                  *)
(***************************************************************************)
EXTENDS ImageDownload, TLAPS

CallTypes ==
  /\ pc \in [Downloader -> {"lookup", "pool", "peek", "wait", "grab", "queue",
                            "create", "info", "fetch", "insert", "source",
                            "import", "mark", "cleanup", "unlock", "end"}]
  /\ fp \in [Downloader -> Key]
  /\ asked \in [Downloader -> Key]
  /\ ch \in [Downloader -> Downloader \cup {None}]
  /\ \A d \in Downloader : pc[d] = "wait" => ch[d] # None
  /\ failure \in [Downloader -> BOOLEAN] /\ ok \in [Downloader -> BOOLEAN]

StoreTypes ==
  /\ imagesDownloading \in [Key -> Downloader \cup {None}]
  /\ closes \in [Downloader -> Nat]
  /\ row \in Id /\ nextId \in Nat
  /\ file \in [Key -> Downloader \cup {None, Whole}]
  /\ pools \subseteq {Want[d] : d \in Downloader}

DeleteTypes ==
  /\ dpc \in [Deleter -> {"lookup", "pools", "files", "row", "end"}]
  /\ imgID \in [Deleter -> Id]

LEMMA TypeParts == TypeOK <=> CallTypes /\ StoreTypes /\ DeleteTypes
BY DEF TypeOK, CallTypes, StoreTypes, DeleteTypes

\* A step of a download keeps the types of the calls.
LEMMA DownloadCallTypes ==
  ASSUME TypeOK, NEW d \in Downloader, Download(d)
  PROVE  CallTypes'
<1> USE DEF CallTypes, Key, Goto, Succeeds, queueVars, dbVars, delVars
<1> CallTypes /\ StoreTypes
  BY TypeParts
<1>1. CASE Lookup(d)  BY <1>1 DEF Lookup
<1>2. CASE PoolImport(d)  BY <1>2 DEF PoolImport
<1>3. CASE Peek(d)  BY <1>3 DEF Peek, StoreTypes
<1>4. CASE Awake(d)  BY <1>4 DEF Awake
<1>5. CASE Grab(d)  BY <1>5 DEF Grab
<1>6. CASE Queue(d)  BY <1>6 DEF Queue
<1>7. CASE Create(d)  BY <1>7 DEF Create
<1>8. CASE ExpandFingerprint(d)  BY <1>8 DEF ExpandFingerprint
<1>9. CASE Fetch(d)  BY <1>9 DEF Fetch
<1>10. CASE Insert(d)  BY <1>10 DEF Insert
<1>11. CASE RecordSource(d)  BY <1>11 DEF RecordSource
<1>12. CASE Import(d)  BY <1>12 DEF Import
<1>13. CASE MarkCached(d)  BY <1>13 DEF MarkCached
<1>14. CASE Cleanup(d)  BY <1>14 DEF Cleanup
<1>15. CASE Unlock(d)  BY <1>15 DEF Unlock
<1>q. QED
  BY <1>1, <1>2, <1>3, <1>4, <1>5, <1>6, <1>7, <1>8, <1>9, <1>10, <1>11,
     <1>12, <1>13, <1>14, <1>15 DEF Download

\* A step of a download keeps the types of the map, the row and the files.
LEMMA DownloadStoreTypes ==
  ASSUME TypeOK, NEW d \in Downloader, Download(d)
  PROVE  StoreTypes'
<1> USE DEF StoreTypes, Key, Id, queueVars, dbVars, delVars
<1> CallTypes /\ StoreTypes
  BY TypeParts
<1> asked[d] \in Key /\ fp[d] \in Key
  BY DEF CallTypes
<1>1. CASE Lookup(d)  BY <1>1 DEF Lookup
<1>2. CASE PoolImport(d)  BY <1>2 DEF PoolImport
<1>3. CASE Peek(d)  BY <1>3 DEF Peek
<1>4. CASE Awake(d)  BY <1>4 DEF Awake
<1>5. CASE Grab(d)  BY <1>5 DEF Grab
<1>6. CASE Queue(d)  BY <1>6 DEF Queue
<1>7. CASE Create(d)  BY <1>7 DEF Create
<1>8. CASE ExpandFingerprint(d)  BY <1>8 DEF ExpandFingerprint
<1>9. CASE Fetch(d)  BY <1>9 DEF Fetch
<1>10. CASE Insert(d)  BY <1>10 DEF Insert
<1>11. CASE RecordSource(d)  BY <1>11 DEF RecordSource
<1>12. CASE Import(d)  BY <1>12 DEF Import
<1>13. CASE MarkCached(d)  BY <1>13 DEF MarkCached
<1>14. CASE Cleanup(d)  BY <1>14 DEF Cleanup
<1>15. CASE Unlock(d)  BY <1>15 DEF Unlock
<1>q. QED
  BY <1>1, <1>2, <1>3, <1>4, <1>5, <1>6, <1>7, <1>8, <1>9, <1>10, <1>11,
     <1>12, <1>13, <1>14, <1>15 DEF Download

\* A step of a deletion keeps all the types.
LEMMA DeletionTypes ==
  ASSUME TypeOK, NEW x \in Deleter, Delete(x)
  PROVE  TypeOK'
<1> USE DEF TypeOK, Id, Key, DelGoto, queueVars, dbVars, callVars
<1>1. CASE DeleteLookup(x)  BY <1>1 DEF DeleteLookup
<1>2. CASE DeleteFromPools(x)  BY <1>2 DEF DeleteFromPools
<1>3. CASE DeleteFiles(x)  BY <1>3 DEF DeleteFiles
<1>4. CASE DeleteRow(x)  BY <1>4 DEF DeleteRow
<1>q. QED
  BY <1>1, <1>2, <1>3, <1>4 DEF Delete

LEMMA TypeInit == Init => TypeOK
BY ConstantsAssumption DEF Init, TypeOK, Id, Key

LEMMA TypeStep == TypeOK /\ [Next]_vars => TypeOK'
<1> SUFFICES ASSUME TypeOK, [Next]_vars PROVE TypeOK'
  OBVIOUS
<1>1. ASSUME NEW d \in Downloader, Download(d) PROVE TypeOK'
  <2>1. CallTypes' /\ StoreTypes'
    BY <1>1, DownloadCallTypes, DownloadStoreTypes
  <2>2. DeleteTypes /\ UNCHANGED delVars
    BY <1>1, TypeParts DEF Download, Lookup, PoolImport, Peek, Awake, Grab, Queue, Create, ExpandFingerprint, Fetch, Insert, RecordSource, Import, MarkCached, Cleanup, Unlock
  <2>3. DeleteTypes'
    BY <2>2 DEF DeleteTypes, delVars
  <2> QED
    BY <2>1, <2>3 DEF TypeOK, CallTypes, StoreTypes, DeleteTypes
<1>2. ASSUME NEW x \in Deleter, Delete(x) PROVE TypeOK'
  BY <1>2, DeletionTypes
<1>3. CASE UNCHANGED vars
  BY <1>3 DEF TypeOK, vars, queueVars, dbVars, callVars, delVars
<1>q. QED
  BY <1>1, <1>2, <1>3 DEF Next

\* Type correctness of ImageDownload and imageDelete: in particular a call
\* that waits does so on a channel some call made, never on a nil one.
THEOREM TypeCorrect == Spec => []TypeOK
BY TypeInit, TypeStep, PTL DEF Spec

-----------------------------------------------------------------------------
\* The download has not reached the queue, so its channel does not exist.
Before(d) == pc[d] \in {"lookup", "pool", "peek", "wait", "grab", "queue"}

\* The inductive invariant of the map of channels.
QueueInv ==
  /\ \A k \in Key : imagesDownloading[k] # None =>
       closes[imagesDownloading[k]] = 0 /\ ~Before(imagesDownloading[k])
  /\ \A d \in Downloader : Before(d) => closes[d] = 0
  /\ \A j, k \in Key : j # k /\ imagesDownloading[j] # None =>
       imagesDownloading[j] # imagesDownloading[k]
  /\ ChannelClosedOnce

\* A step that leaves the map alone keeps QueueInv if no download goes back.
LEMMA QueueUntouched ==
  ASSUME TypeOK, QueueInv, UNCHANGED queueVars,
         \A d \in Downloader : Before(d)' => Before(d)
  PROVE  QueueInv'
BY DEF TypeOK, QueueInv, queueVars, Before, ChannelClosedOnce

LEMMA QueueStep == TypeOK /\ QueueInv /\ [Next]_vars => QueueInv'
<1> SUFFICES ASSUME TypeOK, QueueInv, [Next]_vars PROVE QueueInv'
  OBVIOUS
<1>1. ASSUME NEW d \in Downloader, Queue(d) PROVE QueueInv'
  BY <1>1, ConstantsAssumption DEF Queue, TypeOK, QueueInv, Before, ChannelClosedOnce, Goto, Key
<1>2. ASSUME NEW d \in Downloader, Unlock(d) PROVE QueueInv'
  <2> DEFINE c == imagesDownloading[fp[d]]
  <2>1. /\ fp[d] \in Key
        /\ imagesDownloading' = [imagesDownloading EXCEPT ![fp[d]] = None]
        /\ closes' = IF c = None THEN closes ELSE [closes EXCEPT ![c] = @ + 1]
        /\ pc' = [pc EXCEPT ![d] = "end"]
    BY <1>2 DEF Unlock, Goto, TypeOK
  <2>2. CASE c = None
    BY <2>1, <2>2 DEF TypeOK, QueueInv, Before, ChannelClosedOnce
  <2>3. CASE c # None
    <3>1. c \in Downloader /\ closes[c] = 0 /\ ~Before(c)
      BY <2>1, <2>3 DEF TypeOK, QueueInv
    <3>2. \A k \in Key : imagesDownloading'[k] # None =>
            k # fp[d] /\ imagesDownloading'[k] = imagesDownloading[k]
                     /\ imagesDownloading[k] # c
      BY <2>1, <2>3 DEF TypeOK, QueueInv
    <3>3. \A e \in Downloader : e # c => closes'[e] = closes[e]
      BY <2>1, <2>3, <3>1 DEF TypeOK
    <3>4. closes'[c] = 1
      BY <2>1, <2>3, <3>1 DEF TypeOK
    <3>5. \A e \in Downloader : Before(e)' <=> (Before(e) /\ e # d)
      BY <2>1, <1>2 DEF TypeOK, Before, Unlock
    <3>6. \A k \in Key : imagesDownloading[k] \in Downloader \cup {None}
      BY DEF TypeOK
    <3>7. \A k \in Key : imagesDownloading'[k] # None =>
            closes'[imagesDownloading'[k]] = 0 /\ ~Before(imagesDownloading[k])'
      BY <3>2, <3>3, <3>5, <3>6 DEF QueueInv
    <3>8. \A e \in Downloader : Before(e)' => closes'[e] = 0
      BY <3>1, <3>3, <3>5 DEF QueueInv
    <3>9. \A j, k \in Key : j # k /\ imagesDownloading'[j] # None =>
            imagesDownloading'[j] # imagesDownloading'[k]
      BY <2>1, <3>2 DEF TypeOK, QueueInv
    <3>10. ChannelClosedOnce'
      BY <3>3, <3>4 DEF QueueInv, ChannelClosedOnce
    <3> QED
      BY <3>7, <3>8, <3>9, <3>10 DEF QueueInv
  <2> QED
    BY <2>2, <2>3
<1>3. ASSUME NEW d \in Downloader, Download(d), ~Queue(d), ~Unlock(d)
      PROVE  QueueInv'
  <2> USE DEF TypeOK, Before, Goto, Succeeds, queueVars
  <2>1. CASE Lookup(d)  BY <2>1, QueueUntouched DEF Lookup
  <2>2. CASE PoolImport(d)  BY <2>2, QueueUntouched DEF PoolImport
  <2>3. CASE Peek(d)  BY <2>3, QueueUntouched DEF Peek
  <2>4. CASE Awake(d)  BY <2>4, QueueUntouched DEF Awake
  <2>5. CASE Grab(d)  BY <2>5, QueueUntouched DEF Grab
  <2>6. CASE Create(d)  BY <2>6, QueueUntouched DEF Create
  <2>7. CASE ExpandFingerprint(d)  BY <2>7, QueueUntouched DEF ExpandFingerprint
  <2>8. CASE Fetch(d)  BY <2>8, QueueUntouched DEF Fetch
  <2>9. CASE Insert(d)  BY <2>9, QueueUntouched DEF Insert
  <2>10. CASE RecordSource(d)  BY <2>10, QueueUntouched DEF RecordSource
  <2>11. CASE Import(d)  BY <2>11, QueueUntouched DEF Import
  <2>12. CASE MarkCached(d)  BY <2>12, QueueUntouched DEF MarkCached
  <2>13. CASE Cleanup(d)  BY <2>13, QueueUntouched DEF Cleanup
  <2> QED
    BY <1>3, <2>1, <2>2, <2>3, <2>4, <2>5, <2>6, <2>7, <2>8, <2>9, <2>10, <2>11, <2>12, <2>13 DEF Download
<1>4. ASSUME NEW x \in Deleter, Delete(x) PROVE QueueInv'
  BY <1>4, QueueUntouched
  DEF Delete, DeleteLookup, DeleteFromPools, DeleteFiles, DeleteRow, callVars, Before
<1>5. CASE UNCHANGED vars
  BY <1>5, QueueUntouched DEF vars, callVars, Before
<1>q. QED
  BY <1>1, <1>2, <1>3, <1>4, <1>5 DEF Next

\* However many downloads of the image run at a time, and whatever keys they
\* were given, the deferred functions of ImageDownload never close a channel
\* twice.
THEOREM NoDoubleClose == Spec => []ChannelClosedOnce
<1>1. Init => QueueInv
  BY DEF Init, QueueInv, Before, ChannelClosedOnce, Key
<1>2. QueueInv => ChannelClosedOnce
  BY DEF QueueInv
<1> QED
  BY <1>1, <1>2, TypeInit, TypeStep, QueueStep, PTL DEF Spec

-----------------------------------------------------------------------------
\* A step that leaves the map alone and in which no queued download leaves or
\* goes back to a prefix.
LEMMA OwnerStays ==
  ASSUME EntryHasOwner, UNCHANGED imagesDownloading,
         \A d \in Downloader : Queued(d) /\ fp[d] = "full" => (Queued(d) /\ fp[d] = "full")'
  PROVE  EntryHasOwner'
BY DEF EntryHasOwner

LEMMA OwnerStep == TypeOK /\ EntryHasOwner /\ [Next]_vars => EntryHasOwner'
<1> SUFFICES ASSUME TypeOK, EntryHasOwner, [Next]_vars PROVE EntryHasOwner'
  OBVIOUS
<1>1. ASSUME NEW d \in Downloader, Queue(d) PROVE EntryHasOwner'
  <2>1. CASE fp[d] = "full"
    <3>1. Queued(d)' /\ fp'[d] = "full"
      BY <1>1, <2>1 DEF Queue, Goto, Queued, TypeOK
    <3> QED
      BY <3>1 DEF EntryHasOwner
  <2>2. CASE fp[d] # "full"
    <3>1. imagesDownloading'["full"] = imagesDownloading["full"]
      BY <1>1, <2>2 DEF Queue, TypeOK
    <3>2. \A e \in Downloader : Queued(e) /\ fp[e] = "full" => Queued(e)' /\ fp'[e] = "full"
      BY <1>1 DEF Queue, Goto, Queued, TypeOK
    <3> QED
      BY <3>1, <3>2 DEF EntryHasOwner
  <2> QED
    BY <2>1, <2>2
<1>2. ASSUME NEW d \in Downloader, Unlock(d) PROVE EntryHasOwner'
  <2>1. CASE fp[d] = "full"
    <3>1. imagesDownloading'["full"] = None
      BY <1>2, <2>1 DEF Unlock, TypeOK, Key
    <3> QED
      BY <3>1 DEF EntryHasOwner
  <2>2. CASE fp[d] # "full"
    <3>1. imagesDownloading'["full"] = imagesDownloading["full"]
      BY <1>2, <2>2 DEF Unlock, TypeOK
    <3>2. \A e \in Downloader : Queued(e) /\ fp[e] = "full" => Queued(e)' /\ fp'[e] = "full"
      BY <1>2, <2>2 DEF Unlock, Goto, Queued, TypeOK
    <3> QED
      BY <3>1, <3>2 DEF EntryHasOwner
  <2> QED
    BY <2>1, <2>2
<1>3. ASSUME NEW d \in Downloader, Download(d), ~Queue(d), ~Unlock(d)
      PROVE  EntryHasOwner'
  <2> USE DEF TypeOK, Queued, Goto, Succeeds, queueVars
  <2>1. CASE Lookup(d)  BY <2>1, OwnerStays DEF Lookup
  <2>2. CASE PoolImport(d)  BY <2>2, OwnerStays DEF PoolImport
  <2>3. CASE Peek(d)  BY <2>3, OwnerStays DEF Peek
  <2>4. CASE Awake(d)  BY <2>4, OwnerStays DEF Awake
  <2>5. CASE Grab(d)  BY <2>5, OwnerStays DEF Grab
  <2>6. CASE Create(d)  BY <2>6, OwnerStays DEF Create
  <2>7. CASE ExpandFingerprint(d)  BY <2>7, OwnerStays DEF ExpandFingerprint
  <2>8. CASE Fetch(d)  BY <2>8, OwnerStays DEF Fetch
  <2>9. CASE Insert(d)  BY <2>9, OwnerStays DEF Insert
  <2>10. CASE RecordSource(d)  BY <2>10, OwnerStays DEF RecordSource
  <2>11. CASE Import(d)  BY <2>11, OwnerStays DEF Import
  <2>12. CASE MarkCached(d)  BY <2>12, OwnerStays DEF MarkCached
  <2>13. CASE Cleanup(d)  BY <2>13, OwnerStays DEF Cleanup
  <2> QED
    BY <1>3, <2>1, <2>2, <2>3, <2>4, <2>5, <2>6, <2>7, <2>8, <2>9, <2>10, <2>11, <2>12, <2>13 DEF Download
<1>4. ASSUME NEW x \in Deleter, Delete(x) PROVE EntryHasOwner'
  BY <1>4, OwnerStays
  DEF Delete, DeleteLookup, DeleteFromPools, DeleteFiles, DeleteRow, queueVars, callVars, Queued
<1>5. CASE UNCHANGED vars
  BY <1>5, OwnerStays DEF vars, queueVars, callVars, Queued
<1>q. QED
  BY <1>1, <1>2, <1>3, <1>4, <1>5 DEF Next

\* An entry of imagesDownloading under a fingerprint always has a download
\* under way that will take it out, however many downloads overwrite each
\* other's entries, by fingerprint or by prefix, and however they fail.
THEOREM NoEntryLeftBehind == Spec => []EntryHasOwner
<1>1. Init => EntryHasOwner
  BY DEF Init, EntryHasOwner, Key
<1> QED
  BY <1>1, OwnerStep, TypeInit, TypeStep, PTL DEF Spec

-----------------------------------------------------------------------------
\* One download of the image, by its fingerprint.
Sole == Private = {} /\ \A d, e \in Downloader : d = e

\* What is known before the row is inserted: there is nothing to delete ...
NotYet ==
  /\ row = None
  /\ \A d \in Downloader : asked[d] = "full"
  /\ \A x \in Deleter : dpc[x] \in {"lookup", "end"}
  /\ \A d \in Downloader :
       /\ pc[d] \notin {"source", "import", "mark"}
       /\ pc[d] \in {"info", "fetch"} => file["full"] = d
       /\ pc[d] = "insert" => file["full"] = Whole

\* ... and after it: the download is past every step that touches the file,
\* and whoever deletes holds the one id the row ever had.
Inserted ==
  /\ row \in {None, 1}
  /\ \A x \in Deleter :
       dpc[x] \in {"pools", "files", "row"} => imgID[x] = 1
  /\ \A d \in Downloader :
       /\ ~failure[d]
       /\ pc[d] \in {"source", "import", "mark", "cleanup", "unlock", "end"}
  /\ FileThere

SoleInv == (nextId = 1 /\ NotYet) \/ (nextId = 2 /\ Inserted)

LEMMA SoleStep ==
  ASSUME Sole
  PROVE  TypeOK /\ SoleInv /\ [Next]_vars => SoleInv'
<1> SUFFICES ASSUME TypeOK, SoleInv, [Next]_vars PROVE SoleInv'
  OBVIOUS
<1> USE DEF TypeOK, Key, Id, queueVars, dbVars, delVars, callVars
<1>1. ASSUME NEW d \in Downloader, Download(d) PROVE SoleInv'
  <2>1. \A e \in Downloader : e = d
    BY Sole DEF Sole
  <2>2. CASE nextId = 1 /\ NotYet
    <3> SUFFICES (nextId' = 1 /\ NotYet') \/ (nextId' = 2 /\ Inserted')
      BY DEF SoleInv
    <3> USE <2>1, <2>2 DEF NotYet, Goto, Succeeds, InDB
    <3>1. CASE Lookup(d)  BY <3>1, ConstantsAssumption DEF Lookup
    <3>2. CASE PoolImport(d)  BY <3>2, ConstantsAssumption DEF PoolImport
    <3>3. CASE Peek(d)  BY <3>3, ConstantsAssumption DEF Peek
    <3>4. CASE Awake(d)  BY <3>4, ConstantsAssumption DEF Awake
    <3>5. CASE Grab(d)  BY <3>5, ConstantsAssumption DEF Grab
    <3>6. CASE Queue(d)  BY <3>6, ConstantsAssumption DEF Queue
    <3>7. CASE Create(d)  BY <3>7, ConstantsAssumption DEF Create
    <3>8. CASE ExpandFingerprint(d)
      <4>1. file["full"] = d
        BY <3>8 DEF ExpandFingerprint
      <4> QED
        BY <3>8, <4>1 DEF ExpandFingerprint
    <3>9. CASE Fetch(d)  BY <3>9, ConstantsAssumption DEF Fetch
    <3>10. CASE Insert(d)
      <4>1. row' = 1 /\ nextId' = 2 /\ ~failure'[d] /\ pc'[d] = "source" /\ file'["full"] = Whole
        BY <3>10 DEF Insert
      <4> QED
        BY <3>10, <4>1 DEF Insert, Inserted, FileThere
    <3>11. CASE RecordSource(d)  BY <3>11, ConstantsAssumption DEF RecordSource
    <3>12. CASE Import(d)  BY <3>12, ConstantsAssumption DEF Import
    <3>13. CASE MarkCached(d)  BY <3>13, ConstantsAssumption DEF MarkCached
    <3>14. CASE Cleanup(d)  BY <3>14, ConstantsAssumption DEF Cleanup
    <3>15. CASE Unlock(d)  BY <3>15, ConstantsAssumption DEF Unlock
    <3> QED
      BY <1>1, <3>1, <3>2, <3>3, <3>4, <3>5, <3>6, <3>7, <3>8, <3>9, <3>10, <3>11, <3>12, <3>13, <3>14, <3>15 DEF Download
  <2>3. CASE nextId = 2 /\ Inserted
    <3> SUFFICES nextId' = 2 /\ Inserted'
      BY DEF SoleInv
    <3> USE <2>1, <2>3 DEF Inserted, FileThere, Goto
    <3>1. CASE RecordSource(d)  BY <3>1 DEF RecordSource
    <3>2. CASE Import(d)  BY <3>2 DEF Import
    <3>3. CASE MarkCached(d)  BY <3>3 DEF MarkCached
    <3>4. CASE Cleanup(d)  BY <3>4 DEF Cleanup
    <3>5. CASE Unlock(d)  BY <3>5 DEF Unlock
    <3>6. ~Lookup(d) /\ ~PoolImport(d) /\ ~Peek(d) /\ ~Awake(d) /\ ~Grab(d) /\ ~Queue(d)
          /\ ~Create(d) /\ ~ExpandFingerprint(d) /\ ~Fetch(d) /\ ~Insert(d)
      BY DEF Lookup, PoolImport, Peek, Awake, Grab, Queue, Create, ExpandFingerprint, Fetch, Insert
    <3> QED
      BY <1>1, <3>1, <3>2, <3>3, <3>4, <3>5, <3>6 DEF Download
  <2> QED
    BY <2>2, <2>3 DEF SoleInv
<1>2. ASSUME NEW x \in Deleter, Delete(x) PROVE SoleInv'
  <2>1. CASE nextId = 1 /\ NotYet
    <3> SUFFICES nextId' = 1 /\ NotYet'
      BY DEF SoleInv
    <3> USE <2>1 DEF NotYet, DelGoto
    <3>1. DeleteLookup(x)
      BY <1>2 DEF Delete, DeleteFromPools, DeleteFiles, DeleteRow
    <3> QED
      BY <3>1 DEF DeleteLookup
  <2>2. CASE nextId = 2 /\ Inserted
    <3> SUFFICES nextId' = 2 /\ Inserted'
      BY DEF SoleInv
    <3> USE <2>2 DEF Inserted, FileThere, DelGoto
    <3>1. CASE DeleteLookup(x)  BY <3>1 DEF DeleteLookup
    <3>2. CASE DeleteFromPools(x)  BY <3>2 DEF DeleteFromPools
    <3>3. CASE DeleteFiles(x)  BY <3>3 DEF DeleteFiles
    <3>4. CASE DeleteRow(x)  BY <3>4 DEF DeleteRow
    <3> QED
      BY <1>2, <3>1, <3>2, <3>3, <3>4 DEF Delete
  <2> QED
    BY <2>1, <2>2 DEF SoleInv
<1>3. CASE UNCHANGED vars
  BY <1>3 DEF vars, SoleInv, NotYet, Inserted, FileThere
<1>q. QED
  BY <1>1, <1>2, <1>3 DEF Next

\* A single download of the image by its fingerprint never leaves a row
\* without its file, however it fails and however many deletions run
\* beside it.
THEOREM SoleDownloadKeepsFile ==
  ASSUME Sole
  PROVE  Spec => []ImageFileThere
<1>1. Init => SoleInv
  BY Sole DEF Sole, Init, SoleInv, NotYet
<1>2. SoleInv => ImageFileThere
  BY DEF SoleInv, NotYet, Inserted, FileThere, ImageFileThere
<1>3. TypeOK /\ SoleInv /\ [Next]_vars => SoleInv'
  BY Sole, SoleStep
<1> QED
  BY <1>1, <1>2, <1>3, TypeInit, TypeStep, PTL DEF Spec
=============================================================================
