------------------------------- MODULE Images -------------------------------
(***************************************************************************)
(* The pictures of a product, images/images.service.ts: files kept by      *)
(* Cloudinary, their records, and the list of images in the product, whose *)
(* first is the main one.  Each action is one await.  Requests overlap, so *)
(* that a list that was read may be stale when it is written as a whole.   *)
(*                                                                         *)
(* An image stands for its file and its record; sizes and formats are left *)
(* out.  uploadImage is also how a design gets its picture.                *)
(***************************************************************************)
EXTENDS Integers, SequencesExt, Lists

CONSTANTS
  Pictures,      \* images, the ones not uploaded yet included
  Garments,      \* products
  MaxImages,     \* images per product, 5 in the code
  PictureCalls,  \* requests of the administrators in a configuration
  PictureSlots   \* request slots, each used for one call

PictureRequests ==
  [op : {"uploadProductImage"}, garment : Garments]
  \cup [op : {"setMainImage", "deleteProductImage"}, garment : Garments, image : Pictures]
  \cup [op : {"reorderImages"}, garment : Garments, images : Seq(Pictures)]

ASSUME ImagesAssumption ==
  /\ MaxImages \in Nat \ {0}
  /\ PictureCalls # {} /\ PictureCalls \subseteq PictureRequests

VARIABLES
  gallery,     \* field images of every product
  records,     \* collection "images"
  files,       \* the files Cloudinary keeps
  uploaded,    \* history: the images ever uploaded
  pictureLog,  \* history: writes so far, [garment, added, removed]
  picturePc, pictureJob

picturesVars == <<gallery, records, files, uploaded, pictureLog, picturePc, pictureJob>>

NoList == << >>
IdlePictureJob == [call |-> CHOOSE c \in PictureCalls : TRUE, list |-> NoList,
                   image |-> CHOOSE i \in Pictures : TRUE, since |-> 0]

ImagesTypeOK ==
  /\ gallery \in [Garments -> Seq(Pictures)]
  /\ uploaded \subseteq Pictures
  /\ records \subseteq uploaded /\ files \subseteq uploaded
  /\ picturePc \in [PictureSlots -> {"new", "loaded", "stored", "recorded",
                                     "found", "destroyed", "pulled", "done"}]
  /\ \A s \in PictureSlots : pictureJob[s].call \in PictureCalls

ImagesInit ==
  /\ gallery = [g \in Garments |-> NoList]
  /\ records = {} /\ files = {} /\ uploaded = {}
  /\ pictureLog = << >>
  /\ picturePc = [s \in PictureSlots |-> "new"]
  /\ pictureJob = [s \in PictureSlots |-> IdlePictureJob]

-----------------------------------------------------------------------------
PictureGoto(s, at) == picturePc' = [picturePc EXCEPT ![s] = at]

(* A write of a product's list, with the images it adds and drops.         *)
WriteGallery(g, list) ==
  /\ gallery' = [gallery EXCEPT ![g] = list]
  /\ pictureLog' = Append(pictureLog,
       [garment |-> g,
        added |-> Range(list) \ Range(gallery[g]),
        removed |-> Range(gallery[g]) \ Range(list)])

(* Faulty variant: the limit is compared with the list before the push.    *)
HasRoomTooLong(list) == Len(list) <= MaxImages

HasRoom(list) == Len(list) < MaxImages

(* An upload and a change of the order load the product; ...               *)
LoadGallery(s, c) ==
  LET list == gallery[c.garment] IN
  /\ picturePc[s] = "new"
  /\ \/ c.op = "uploadProductImage" /\ HasRoom(list)
     \/ c.op = "setMainImage" /\ Contains(list, c.image)
     \/ /\ c.op = "reorderImages"
        /\ Range(c.images) \subseteq Range(list) /\ Len(c.images) = Len(list)
  /\ PictureGoto(s, "loaded")
  /\ pictureJob' = [pictureJob EXCEPT ![s] =
       [IdlePictureJob EXCEPT !.call = c, !.list = list, !.since = Len(pictureLog)]]
  /\ UNCHANGED <<gallery, records, files, uploaded, pictureLog>>

(* ... an upload stores the file, which may fail, ...                      *)
UploadToCloudinary(s) ==
  /\ picturePc[s] = "loaded" /\ pictureJob[s].call.op = "uploadProductImage"
  /\ \/ \E i \in Pictures \ files :
          /\ i \notin records /\ \A n \in 1..Len(pictureLog) : i \notin pictureLog[n].added
          /\ files' = files \cup {i}
          /\ uploaded' = uploaded \cup {i}
          /\ pictureJob' = [pictureJob EXCEPT ![s].image = i]
          /\ PictureGoto(s, "stored")
     \/ PictureGoto(s, "done") /\ UNCHANGED <<files, uploaded, pictureJob>>
  /\ UNCHANGED <<gallery, records, pictureLog>>

(* ... creates the record, ...                                             *)
CreateRecord(s) ==
  /\ picturePc[s] = "stored"
  /\ records' = records \cup {pictureJob[s].image}
  /\ PictureGoto(s, "recorded")
  /\ UNCHANGED <<gallery, files, uploaded, pictureLog, pictureJob>>

(* ... and pushes its id; ...                                              *)
PushImage(s) ==
  LET g == pictureJob[s].call.garment IN
  /\ picturePc[s] = "recorded"
  /\ WriteGallery(g, Append(gallery[g], pictureJob[s].image))
  /\ PictureGoto(s, "done")
  /\ UNCHANGED <<records, files, uploaded, pictureJob>>

(* Faulty variant: the image takes the place of the main one.              *)
ReorderedOver(j) ==
  IF j.call.op = "setMainImage"
    THEN <<j.call.image>> \o Filtered(Tail(j.list), Pictures \ {j.call.image})
    ELSE j.call.images

Reordered(j) ==
  IF j.call.op = "setMainImage"
    THEN <<j.call.image>> \o Filtered(j.list, Pictures \ {j.call.image})
    ELSE j.call.images

(* ... the others write the list made from the one they read.              *)
WriteOrder(s) ==
  LET j == pictureJob[s] IN
  /\ picturePc[s] = "loaded" /\ j.call.op \in {"setMainImage", "reorderImages"}
  /\ WriteGallery(j.call.garment, Reordered(j))
  /\ PictureGoto(s, "done")
  /\ UNCHANGED <<records, files, uploaded, pictureJob>>

-----------------------------------------------------------------------------
(* deleteProductImage finds the record, whatever product has the image,    *)
FindImage(s, c) ==
  /\ picturePc[s] = "new" /\ c.op = "deleteProductImage"
  /\ c.image \in records
  /\ PictureGoto(s, "found")
  /\ pictureJob' = [pictureJob EXCEPT ![s] =
       [IdlePictureJob EXCEPT !.call = c, !.since = Len(pictureLog)]]
  /\ UNCHANGED <<gallery, records, files, uploaded, pictureLog>>

(* destroys the file, an error only being logged, ...                      *)
DestroyFile(s) ==
  /\ picturePc[s] = "found"
  /\ files' \in {files, files \ {pictureJob[s].call.image}}
  /\ PictureGoto(s, "destroyed")
  /\ UNCHANGED <<gallery, records, uploaded, pictureLog, pictureJob>>

(* ... pulls the id from the product named in the request, ...             *)
PullImage(s) ==
  LET c == pictureJob[s].call IN
  /\ picturePc[s] = "destroyed"
  /\ WriteGallery(c.garment, Filtered(gallery[c.garment], Pictures \ {c.image}))
  /\ PictureGoto(s, "pulled")
  /\ UNCHANGED <<records, files, uploaded, pictureJob>>

(* ... and deletes the record.                                             *)
DeleteRecord(s) ==
  LET c == pictureJob[s].call IN
  /\ picturePc[s] = "pulled"
  /\ records' = records \ {c.image}
  /\ PictureGoto(s, "done")
  /\ UNCHANGED <<gallery, files, uploaded, pictureLog, pictureJob>>

ImagesNext ==
  \E s \in PictureSlots :
    \/ \E c \in PictureCalls : LoadGallery(s, c) \/ FindImage(s, c)
    \/ UploadToCloudinary(s) \/ CreateRecord(s) \/ PushImage(s) \/ WriteOrder(s)
    \/ DestroyFile(s) \/ PullImage(s) \/ DeleteRecord(s)

ImagesSpec == ImagesInit /\ [][ImagesNext]_picturesVars
=============================================================================
