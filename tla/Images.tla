------------------------------- MODULE Images -------------------------------
(***************************************************************************)
(* The daemon's images: the rows of the database, the files under images/, *)
(* the volumes of the images in the storage pools and the aliases, as the  *)
(* requests on images, the updates from the server an image came from and  *)
(* the expiry of cached images change them.  A request is a background     *)
(* operation and holds no lock, but for the lock of publishing.  What a    *)
(* download does on its way is in ImageDownload; here it comes about, ends *)
(* with the row alone or does not.                                         *)
(***************************************************************************)
EXTENDS Naturals, FiniteSets

CONSTANTS
  Fps,             \* fingerprints
  ImgPools,        \* storage pools
  Names,           \* aliases
  ImgReqs,         \* requests
  MaxImgIds,       \* bound on the rows made
  MaxImgFaults

\* A fingerprint is a hash, never empty.
ASSUME ImagesAssumption == "" \notin Fps /\ MaxImgIds \in Nat /\ MaxImgFaults \in Nat

VARIABLES
  imgRow,          \* fingerprint -> its row
  imgFile,         \* fingerprints with a file
  imgVol,          \* <<fingerprint, pool>> with a volume
  aliasOf,         \* alias -> id of its image, 0 for none
  upstream,        \* what the remote alias stands for
  nextImg,
  publisher,       \* holder of imagePublishLock
  img,             \* the requests
  wanted,          \* the aliases that were made and that nobody has removed
  imgMarks, imgFaults

imgVars == <<imgRow, imgFile, imgVol, aliasOf, upstream, nextImg, publisher, img, wanted, imgMarks, imgFaults>>

NoImage == [id |-> 0, auto |-> FALSE, cached |-> FALSE, src |-> FALSE]
NoImg == [kind |-> "none", at |-> "idle", fp |-> "", id |-> 0, left |-> {}, hash |-> "", part |-> FALSE, name |-> "", new |-> 0]

\* Nothing, or an image of each kind: from the remote alias, cached, in pools.
ImagesInit ==
  /\ upstream \in Fps
  /\ \E first \in Fps, cached \in BOOLEAN, pools \in SUBSET ImgPools :
       /\ imgRow = [f \in Fps |-> IF f = first THEN [id |-> 1, auto |-> TRUE, cached |-> cached, src |-> TRUE]
                                  ELSE NoImage]
       /\ imgFile = {first} /\ imgVol = {first} \X pools
  /\ aliasOf = [n \in Names |-> 0] /\ nextImg = 2 /\ publisher = "nobody"
  /\ img = [r \in ImgReqs |-> NoImg] /\ wanted = {} /\ imgMarks = {} /\ imgFaults = 0

ImgFault == imgFaults < MaxImgFaults /\ imgFaults' = imgFaults + 1
ImgMark(S) == imgMarks' = imgMarks \cup S
ImgEnds(r) == img' = [img EXCEPT ![r] = NoImg]
ImgGoes(r, at) == img' = [img EXCEPT ![r].at = at]

Row(f) == imgRow[f]
RowOf(id) == {f \in Fps : imgRow[f].id = id}

\* Another request is about to make the row of f, or f has a row that is not
\* the one request r knows.
Meets(r, f) ==
  \/ \E q \in ImgReqs \ {r} : img[q].fp = f /\ img[q].at = "moved"
  \/ Row(f).id \notin {0, img[r].id}

-----------------------------------------------------------------------------
(* The database. *)

dbImageInsert(f, auto, src) ==
  /\ nextImg <= MaxImgIds /\ nextImg' = nextImg + 1
  /\ imgRow' = [imgRow EXCEPT ![f] = [id |-> nextImg, auto |-> auto, cached |-> FALSE, src |-> src]]

\* The aliases of an image go with its row.
dbImageDelete(id) ==
  /\ imgRow' = [f \in Fps |-> IF imgRow[f].id = id THEN NoImage ELSE imgRow[f]]
  /\ aliasOf' = [n \in Names |-> IF aliasOf[n] = id THEN 0 ELSE aliasOf[n]]

\* Faulty form: the aliases stay with the image that is to go.
AliasesStay(from, to) == UNCHANGED aliasOf

dbImageAliasesMove(from, to) ==
  aliasOf' = [n \in Names |-> IF aliasOf[n] = from THEN to ELSE aliasOf[n]]

dbImageUpdate(id, auto) ==
  imgRow' = [f \in Fps |-> IF imgRow[f].id = id /\ id # 0 THEN [imgRow[f] EXCEPT !.auto = auto] ELSE imgRow[f]]

dbImageGetPools(f) == {p \in ImgPools : <<f, p>> \in imgVol}

-----------------------------------------------------------------------------
(* Making images. *)

\* imagesPost stores the body of the request; an upload with a fingerprint or
\* metadata that do not fit ends there.
imagesPost(r, kind, f, n) ==
  /\ img[r] = NoImg /\ kind \in {"upload", "publish", "import"}
  /\ kind = "import" => f = upstream
  /\ img' = [img EXCEPT ![r] = [NoImg EXCEPT !.kind = kind, !.fp = f, !.name = n,
                                !.at = IF kind = "upload" THEN "move" ELSE IF kind = "publish" THEN "lock" ELSE "fetch"]]
  /\ UNCHANGED <<imgRow, imgFile, imgVol, aliasOf, upstream, nextImg, publisher, wanted, imgMarks, imgFaults>>

\* imgPostContInfo exports the container and compresses the file, both in the
\* build directory, before it looks whether there is such an image.
imgPostContInfo(r) ==
  /\ img[r].at = "lock" /\ publisher = "nobody"
  /\ IF Row(img[r].fp).id # 0 THEN ImgEnds(r) /\ UNCHANGED publisher
     ELSE ImgGoes(r, "move") /\ publisher' = r
  /\ UNCHANGED <<imgRow, imgFile, imgVol, aliasOf, upstream, nextImg, wanted, imgMarks, imgFaults>>

FileMove(r) ==
  /\ img[r].at = "move"
  /\ \/ imgFile' = imgFile \cup {img[r].fp} /\ ImgGoes(r, "moved") /\ UNCHANGED <<publisher, imgFaults>>
     \/ /\ ImgFault /\ ImgEnds(r) /\ publisher' = (IF publisher = r THEN "nobody" ELSE publisher)
        /\ UNCHANGED imgFile
  /\ ImgMark(IF \E q \in ImgReqs : img[q].fp = img[r].fp /\ img[q].at = "row" THEN {"crossed"} ELSE {})
  /\ UNCHANGED <<imgRow, imgVol, aliasOf, upstream, nextImg, wanted>>

\* getImgPostInfo only now looks for the row; the file it has put there is
\* the same.  Without a row the file of a failed insert stays.
ImageInsert(r) ==
  /\ img[r].at = "moved" /\ publisher' = (IF publisher = r THEN "nobody" ELSE publisher)
  /\ \/ /\ Row(img[r].fp).id = 0 /\ dbImageInsert(img[r].fp, FALSE, FALSE)
        /\ ImgGoes(r, "alias") /\ UNCHANGED <<imgMarks, imgFaults>>
     \/ /\ Row(img[r].fp).id # 0 /\ ImgEnds(r) /\ UNCHANGED <<imgRow, nextImg, imgMarks, imgFaults>>
     \/ /\ Row(img[r].fp).id = 0 /\ ImgFault /\ ImgMark({"orphan"}) /\ ImgEnds(r) /\ UNCHANGED <<imgRow, nextImg>>
  /\ UNCHANGED <<imgFile, imgVol, aliasOf, upstream, wanted>>

\* Daemon.ImageDownload of the remote alias, into pool p unless that is "".
ImageDownload(p) ==
  LET f == upstream IN
  /\ IF Row(f).id # 0 THEN UNCHANGED <<imgRow, imgFile, nextImg>>
     ELSE dbImageInsert(f, TRUE, TRUE) /\ imgFile' = imgFile \cup {f}
  /\ imgVol' = imgVol \cup ({f} \X ({p} \cap ImgPools))

\* imgPostRemoteInfo and imgPostURLInfo: then the row is read and written
\* again with what the request says of it.
imgPostRemoteInfo(r) ==
  /\ img[r].at = "fetch"
  /\ \/ /\ ImageDownload("")
        /\ img' = [img EXCEPT ![r].at = "alias", ![r].fp = upstream]
        /\ UNCHANGED imgFaults
     \/ ImgFault /\ ImgEnds(r) /\ UNCHANGED <<imgRow, imgFile, imgVol, nextImg>>
  /\ UNCHANGED <<aliasOf, upstream, publisher, wanted, imgMarks>>

\* An alias that is made of an image which an update is about to remove.
Doomed(id) == IF \E q \in ImgReqs : img[q].kind = "update" /\ img[q].id = id /\ img[q].hash # ""
              THEN {"crossed"} ELSE {}

\* The end of imagesPost.  The image stays when its alias is taken or when
\* someone has deleted the image.
ApplyAlias(r) ==
  /\ img[r].at = "alias" /\ ImgEnds(r)
  /\ LET n == img[r].name IN
     IF n \in Names /\ aliasOf[n] = 0 /\ Row(img[r].fp).id # 0
     THEN aliasOf' = [aliasOf EXCEPT ![n] = Row(img[r].fp).id] /\ wanted' = wanted \cup {n} /\ ImgMark(Doomed(Row(img[r].fp).id))
     ELSE UNCHANGED <<aliasOf, wanted, imgMarks>>
  /\ UNCHANGED <<imgRow, imgFile, imgVol, upstream, nextImg, publisher, imgFaults>>

-----------------------------------------------------------------------------
(* Aliases.  The names are unique and an alias has an image, whatever meets *)
(* between the look at the table and the change.                            *)

aliasesPost(n, f) ==
  /\ aliasOf[n] = 0 /\ Row(f).id # 0
  /\ aliasOf' = [aliasOf EXCEPT ![n] = Row(f).id] /\ wanted' = wanted \cup {n} /\ ImgMark(Doomed(Row(f).id))
  /\ UNCHANGED <<imgRow, imgFile, imgVol, upstream, nextImg, publisher, img, imgFaults>>

aliasDelete(n) ==
  /\ aliasOf[n] # 0 /\ aliasOf' = [aliasOf EXCEPT ![n] = 0] /\ wanted' = wanted \ {n}
  /\ UNCHANGED <<imgRow, imgFile, imgVol, upstream, nextImg, publisher, img, imgMarks, imgFaults>>

aliasPut(n, f) ==
  /\ aliasOf[n] # 0 /\ Row(f).id # 0
  /\ aliasOf' = [aliasOf EXCEPT ![n] = Row(f).id] /\ ImgMark(Doomed(Row(f).id))
  /\ UNCHANGED <<imgRow, imgFile, imgVol, upstream, nextImg, publisher, img, wanted, imgFaults>>

aliasPost(n, to) ==
  /\ aliasOf[n] # 0 /\ aliasOf[to] = 0
  /\ aliasOf' = [aliasOf EXCEPT ![n] = 0, ![to] = aliasOf[n]] /\ wanted' = (wanted \ {n}) \cup {to}
  /\ UNCHANGED <<imgRow, imgFile, imgVol, upstream, nextImg, publisher, img, imgMarks, imgFaults>>

\* imagePut and imagePatch: what a patch does not name is written as read.
imagePut(f, auto) ==
  /\ Row(f).id # 0 /\ dbImageUpdate(Row(f).id, auto)
  /\ UNCHANGED <<imgFile, imgVol, aliasOf, upstream, nextImg, publisher, img, wanted, imgMarks, imgFaults>>

-----------------------------------------------------------------------------
(* Removing images. *)

imageDelete(r, f) ==
  /\ img[r] = NoImg /\ Row(f).id # 0
  /\ img' = [img EXCEPT ![r] = [NoImg EXCEPT !.kind = "delete", !.at = "volumes", !.fp = f, !.id = Row(f).id, !.left = dbImageGetPools(f)]]
  /\ UNCHANGED <<imgRow, imgFile, imgVol, aliasOf, upstream, nextImg, publisher, wanted, imgMarks, imgFaults>>

\* dbImagesGetExpired; the pools are read when the image has its turn.
pruneExpiredImages(r, f) ==
  /\ img[r] = NoImg /\ Row(f).cached
  /\ img' = [img EXCEPT ![r] = [NoImg EXCEPT !.kind = "prune", !.at = "volumes", !.fp = f, !.id = Row(f).id, !.left = dbImageGetPools(f)]]
  /\ UNCHANGED <<imgRow, imgFile, imgVol, aliasOf, upstream, nextImg, publisher, wanted, imgMarks, imgFaults>>

\* A request ends with the first volume it cannot delete, the expiry goes on
\* and leaves the volume.
doDeleteImageFromPool(r, p) ==
  /\ img[r].at = "volumes" /\ p \in img[r].left
  /\ \/ /\ imgVol' = imgVol \ {<<img[r].fp, p>>}
        /\ img' = [img EXCEPT ![r].left = @ \ {p}]
        /\ UNCHANGED <<imgMarks, imgFaults>>
     \/ /\ ImgFault /\ UNCHANGED imgVol
        /\ IF img[r].kind = "delete" THEN ImgEnds(r) /\ UNCHANGED imgMarks
           ELSE img' = [img EXCEPT ![r].left = @ \ {p}] /\ ImgMark({"volume"})
  /\ UNCHANGED <<imgRow, imgFile, aliasOf, upstream, nextImg, publisher, wanted>>

\* Both files of the image; an error is only logged.  An update that was given
\* a part of the fingerprint finds none.
RemoveFiles(r) ==
  /\ \/ img[r].at = "volumes" /\ img[r].left = {}
     \/ img[r].at = "files"
  /\ ImgGoes(r, "row")
  /\ \/ /\ imgFile' = (IF img[r].part THEN imgFile ELSE imgFile \ {img[r].fp})
        /\ ImgMark(IF Meets(r, img[r].fp) THEN {"crossed"} ELSE {}) /\ UNCHANGED imgFaults
     \/ ImgFault /\ ImgMark({"orphan"}) /\ UNCHANGED imgFile
  /\ UNCHANGED <<imgRow, imgVol, aliasOf, upstream, nextImg, publisher, wanted>>

\* The expiry looks for the row once more, the others delete the one they had
\* seen.  Only an update is to keep the aliases.
RemoveRow(r) ==
  /\ img[r].at = "row" /\ ImgEnds(r)
  /\ LET id == IF img[r].kind = "prune" THEN Row(img[r].fp).id ELSE img[r].id
         gone == {n \in Names : aliasOf[n] = id /\ id # 0}
         vols == {v \in imgVol : v[1] = img[r].fp}
     IN /\ IF id # 0 THEN dbImageDelete(id) ELSE UNCHANGED <<imgRow, aliasOf>>
        /\ wanted' = (IF img[r].kind \in {"delete", "prune"} THEN wanted \ gone ELSE wanted)
        /\ ImgMark((IF img[r].kind = "prune" /\ id # img[r].id THEN {"crossed"} ELSE {})
                   \cup (IF vols # {} THEN {"volume"} ELSE {}))
  /\ UNCHANGED <<imgFile, imgVol, upstream, nextImg, publisher, imgFaults>>

\* dbImageDelete fails, or the expiry does not find the row any more: the
\* files are gone and the row stays.
RemoveRowFails(r) ==
  /\ img[r].at = "row" /\ ImgFault /\ ImgEnds(r) /\ ImgMark({"fileless"})
  /\ UNCHANGED <<imgRow, imgFile, imgVol, aliasOf, upstream, nextImg, publisher, wanted>>

-----------------------------------------------------------------------------
(* Updating images. *)

Publish(f) ==
  /\ upstream' = f /\ f # upstream
  /\ UNCHANGED <<imgRow, imgFile, imgVol, aliasOf, nextImg, publisher, img, wanted, imgMarks, imgFaults>>

\* autoUpdateImages takes the images that are to be updated, imageRefresh any.
\* imageRefresh goes on with the fingerprint as the client gave it, which may
\* be the first part of it.
autoUpdateImages(r, f) ==
  /\ img[r] = NoImg /\ Row(f).id # 0 /\ Row(f).auto
  /\ img' = [img EXCEPT ![r] = [NoImg EXCEPT !.kind = "update", !.at = "pools", !.fp = f, !.id = Row(f).id]]
  /\ UNCHANGED <<imgRow, imgFile, imgVol, aliasOf, upstream, nextImg, publisher, wanted, imgMarks, imgFaults>>

imageRefresh(r, f, part) ==
  /\ img[r] = NoImg /\ Row(f).id # 0
  /\ img' = [img EXCEPT ![r] = [NoImg EXCEPT !.kind = "update", !.at = "pools", !.fp = f, !.id = Row(f).id,
                                !.part = part]]
  /\ ImgMark(IF part THEN {"part"} ELSE {})
  /\ UNCHANGED <<imgRow, imgFile, imgVol, aliasOf, upstream, nextImg, publisher, wanted, imgFaults>>

\* Where the image has volumes; a part of its fingerprint has none.
UpdatePools(r) ==
  /\ img[r].at = "pools"
  /\ IF \E f \in RowOf(img[r].id) : Row(f).src
     THEN img' = [img EXCEPT ![r].at = "fetched", ![r].left =
                    IF img[r].part \/ dbImageGetPools(img[r].fp) = {} THEN {""} ELSE dbImageGetPools(img[r].fp)]
     ELSE ImgEnds(r)
  /\ UNCHANGED <<imgRow, imgFile, imgVol, aliasOf, upstream, nextImg, publisher, wanted, imgMarks, imgFaults>>

\* Pool by pool.  A pool where it fails is passed over.
UpdatePool(r, p) ==
  /\ img[r].at = "fetched" /\ p \in img[r].left
  /\ \/ /\ ImageDownload(p) /\ UNCHANGED imgFaults
        /\ img' = [img EXCEPT ![r].left = @ \ {p}, ![r].name = IF upstream = img[r].fp /\ ~img[r].part THEN "" ELSE p,
                              ![r].new = IF Row(upstream).id # 0 THEN Row(upstream).id ELSE nextImg,
                              ![r].hash = upstream,
                              ![r].at = IF upstream = img[r].fp /\ ~img[r].part THEN "fetched" ELSE "switch"]
     \/ /\ ImgFault /\ img' = [img EXCEPT ![r].left = @ \ {p}]
        /\ UNCHANGED <<imgRow, imgFile, imgVol, nextImg>>
  /\ UNCHANGED <<aliasOf, upstream, publisher, wanted, imgMarks>>

\* The aliases go over to the new image, if that is still there, and the old
\* one's volume is deleted.  An error passes over the rest, and the old image
\* is removed nevertheless.
UpdateSwitch(r) ==
  /\ img[r].at = "switch"
  /\ LET new == img[r].new
         vol == {<<img[r].fp, img[r].name>>}
     IN \/ /\ RowOf(new) # {} /\ dbImageAliasesMove(img[r].id, new)
           /\ imgVol' = imgVol \ vol /\ ImgMark(Doomed(new)) /\ UNCHANGED imgFaults
        \/ /\ RowOf(new) # {} /\ ImgFault /\ dbImageAliasesMove(img[r].id, new)
           /\ ImgMark({"volume"} \cup Doomed(new)) /\ UNCHANGED imgVol
        \/ /\ RowOf(new) # {} /\ ImgFault /\ ImgMark({"unmoved"}) /\ UNCHANGED <<aliasOf, imgVol>>
        \/ RowOf(new) = {} /\ ImgMark({"unmoved"}) /\ UNCHANGED <<aliasOf, imgVol, imgFaults>>
  /\ img' = [img EXCEPT ![r].at = "fetched", ![r].name = "", ![r].new = 0]
  /\ UNCHANGED <<imgRow, imgFile, upstream, nextImg, publisher, wanted>>

\* Faulty form: an image that has not changed is removed as well.
UpdateEndsAlways(r) ==
  /\ img[r].at = "fetched" /\ img[r].left = {} /\ ImgGoes(r, "files")
  /\ UNCHANGED <<imgRow, imgFile, imgVol, aliasOf, upstream, nextImg, publisher, wanted, imgMarks, imgFaults>>

UpdateEnds(r) ==
  /\ img[r].at = "fetched" /\ img[r].left = {}
  /\ IF img[r].hash = "" \/ (img[r].hash = img[r].fp /\ ~img[r].part) THEN ImgEnds(r) ELSE ImgGoes(r, "files")
  /\ UNCHANGED <<imgRow, imgFile, imgVol, aliasOf, upstream, nextImg, publisher, wanted, imgMarks, imgFaults>>

ImagesNext ==
  \/ \E r \in ImgReqs :
       \/ \E f \in Fps, n \in Names, k \in {"upload", "publish", "import"} : imagesPost(r, k, f, n)
       \/ imgPostContInfo(r) \/ FileMove(r) \/ ImageInsert(r) \/ imgPostRemoteInfo(r) \/ ApplyAlias(r)
       \/ \E f \in Fps : imageDelete(r, f) \/ pruneExpiredImages(r, f) \/ autoUpdateImages(r, f)
       \/ \E f \in Fps, b \in BOOLEAN : imageRefresh(r, f, b)
       \/ \E p \in ImgPools : doDeleteImageFromPool(r, p)
       \/ RemoveFiles(r) \/ RemoveRow(r) \/ RemoveRowFails(r) \/ UpdatePools(r)
       \/ \E p \in ImgPools \cup {""} : UpdatePool(r, p)
       \/ UpdateSwitch(r) \/ UpdateEnds(r)
  \/ \E n \in Names : aliasDelete(n) \/ \E f \in Fps : aliasesPost(n, f) \/ aliasPut(n, f)
  \/ \E n, to \in Names : aliasPost(n, to)
  \/ \E f \in Fps : Publish(f) \/ \E b \in BOOLEAN : imagePut(f, b)

ImagesSpec == ImagesInit /\ [][ImagesNext]_imgVars

-----------------------------------------------------------------------------
\* An alias is there until someone removes it or its image: an update takes it
\* over to the new image, unless a deletion met the making of the same image
\* ("crossed", with an alias made of an image that is being replaced), the
\* aliases could not be moved ("unmoved"), or the refresh was asked for by a
\* part of the fingerprint ("part").  And every image has its file, every file
\* and every volume its image, unless a request is just making or removing
\* them, as long as none of this has happened and no file ("orphan"), volume
\* ("volume") or row ("fileless") could not be removed.
ImagesWhole ==
  /\ imgMarks \cap {"crossed", "unmoved", "part"} = {} => \A n \in wanted : aliasOf[n] # 0
  /\ imgMarks = {} =>
       /\ \A f \in Fps : Row(f).id # 0 /\ f \notin imgFile =>
            \E r \in ImgReqs : img[r].id = Row(f).id /\ img[r].at = "row"
       /\ \A v \in imgVol : Row(v[1]).id # 0
       /\ \A f \in imgFile : Row(f).id # 0 \/ \E r \in ImgReqs : img[r].fp = f /\ img[r].at = "moved"
=============================================================================
