------------------------------ MODULE Listings ------------------------------
(***************************************************************************)
(* The administration of one property (property_service.go with the        *)
(* repositories of properties and property images): creation, edits,       *)
(* publication, deletion, images and the cover, and the funding columns an *)
(* investment updates.                                                     *)
(*                                                                         *)
(* Most requests read the whole property row without a lock, do something  *)
(* slow, and save the whole row from that copy, so a request carries the   *)
(* copy it read.  Saving a copy of a row that was soft-deleted meanwhile   *)
(* brings it back: the update finds no row and gorm inserts with ON        *)
(* CONFLICT UPDATE.                                                        *)
(*                                                                         *)
(* Transactions that change the cover read the property on another         *)
(* connection half-way, so they have two steps.  Others that touch the     *)
(* same images wait for them.                                              *)
(*                                                                         *)
(* overtaken counts the acts of a request on something that is no longer   *)
(* as the request read it; nothing in the code looks at it.                *)
(***************************************************************************)
EXTENDS Naturals

CONSTANTS
    Admins,      \* requests of administrators that may be in progress
    Images,      \* the images that may be uploaded
    NoImage,     \* the NULL of cover_image_url
    Units,       \* the values of total_units
    MaxOvertaken \* the bound on the acts counted in overtaken

ASSUME ImagesAssumption == NoImage \notin Images
ASSUME UnitsAssumption  == Units \subseteq Nat \ {0}
ASSUME BoundAssumption  == MaxOvertaken \in Nat

VARIABLES
    property,    \* the row of properties
    image,       \* image -> its row of property_images
    announced,   \* the property_published events in outbox_events
    held,        \* the slots in the property's rows of investments
    req,         \* administrator's request -> its local variables
    overtaken    \* history: the acts on what had changed since it was read

vars == <<property, image, announced, held, req, overtaken>>

MaybeImage == Images \cup {NoImage}

NoProperty == [status |-> "none", deleted |-> FALSE, cover |-> NoImage, units |-> 0, sold |-> 0]
PropertyRow == [status : {"none", "draft", "active"}, deleted : BOOLEAN, cover : MaybeImage,
                units : Units \cup {0}, sold : Nat]

ImageRow == [status : {"none", "live", "deleted"}, is_cover : BOOLEAN]
NoRow    == [status |-> "none", is_cover |-> FALSE]

IdleRequest == [pc |-> "idle", row |-> NoProperty, image |-> NoImage, removed |-> NoImage]
RequestPCs  == {"idle", "editing", "deleting", "publishing", "uploading", "addPlain", "addCover",
                "picking", "removing", "removingCover", "saving"}
RequestState == [pc : RequestPCs, row : PropertyRow, image : MaybeImage, removed : MaybeImage]

Typed == /\ property \in PropertyRow
         /\ image \in [Images -> ImageRow]
         /\ announced \in Nat
         /\ held \in Nat
         /\ req \in [Admins -> RequestState]
         /\ overtaken \in 0..MaxOvertaken
         /\ \A a \in Admins : req[a].pc = "saving" => req[a].image \in Images

\* idx_property_images_cover: one flag per property, deleted images included.
OneCover == \A i, j \in Images : image[i].is_cover /\ image[j].is_cover => i = j

TypeOK == Typed /\ OneCover

Init == /\ property = NoProperty
        /\ image = [i \in Images |-> NoRow]
        /\ announced = 0
        /\ held = 0
        /\ req = [a \in Admins |-> IdleRequest]
        /\ overtaken = 0

-----------------------------------------------------------------------------
(* Rows and what is known of them *)

\* FindByID: the default scope hides soft-deleted rows.
Found == property.status # "none" /\ ~property.deleted
Live  == {i \in Images : image[i].status = "live"}

\* chk_properties_units_sold
RowAllowed(row) == row.sold <= row.units

\* gorm's Save: every column, as an insert where the row is not found.
Save(row) == /\ RowAllowed(row)
             /\ property' = row

\* Mutant of IndexAdmits: the index leaves out deleted images, so nothing blocks.
IndexOfLiveImages == TRUE

\* The unique index on is_cover knows nothing of deleted_at, the statement that
\* clears the old flag does: the flag of a deleted image stays and blocks others.
IndexAdmits == \A i \in Images : image[i].is_cover => image[i].status = "live"

\* SetCover clears the flag of the live images and sets that of i.
Flagged(rows, i) == [j \in Images |->
    IF j = i THEN [status |-> "live", is_cover |-> TRUE]
    ELSE IF rows[j].status = "live" THEN [rows[j] EXCEPT !.is_cover = FALSE]
    ELSE rows[j]]

Saving(a) == req[a].pc = "saving"
ImagesUnlocked(a) == \A b \in Admins \ {a} : ~Saving(b)

\* The history: an act on something that is not as the request read it is counted.
Acting(asRead) == \/ asRead /\ UNCHANGED overtaken
                  \/ /\ ~asRead /\ overtaken < MaxOvertaken
                     /\ overtaken' = overtaken + 1

\* The copy is the row as it is, the columns the request sets excepted; a change of
\* the terms was also allowed by a number of slots sold that is still the number.
CoverOnly(row) == property = [row EXCEPT !.cover = property.cover]
TermsOnly(row) == /\ property = [row EXCEPT !.units = property.units]
                  /\ row.units = property.units \/ property.sold = 0

Enter(a, pc, row, i, gone) ==
    req' = [req EXCEPT ![a] = [pc |-> pc, row |-> row, image |-> i, removed |-> gone]]
Answer(a) == req' = [req EXCEPT ![a] = IdleRequest]
Begin(a)  == req[a].pc = "idle"

-----------------------------------------------------------------------------
(* CreateProperty, UpdateProperty, DeleteProperty *)

CreateProperty(a, n) ==
    /\ Begin(a)
    /\ property.status = "none"
    /\ property' = [NoProperty EXCEPT !.status = "draft", !.units = n]
    /\ UNCHANGED <<image, announced, held, req, overtaken>>

\* The financial terms may change as long as the copy shows no investor.
UpdateRead(a, n) ==
    /\ Begin(a)
    /\ Found
    /\ n = property.units \/ property.sold = 0
    /\ Enter(a, "editing", [property EXCEPT !.units = n], NoImage, NoImage)
    /\ UNCHANGED <<property, image, announced, held, overtaken>>

UpdateSave(a) ==
    /\ req[a].pc = "editing"
    /\ Save(req[a].row)
    /\ Acting(TermsOnly(req[a].row))
    /\ Answer(a)
    /\ UNCHANGED <<image, announced, held>>

DeleteRead(a) ==
    /\ Begin(a)
    /\ Found
    /\ property.sold = 0
    /\ Enter(a, "deleting", NoProperty, NoImage, NoImage)
    /\ UNCHANGED <<property, image, announced, held, overtaken>>

DeleteRow(a) ==
    /\ req[a].pc = "deleting"
    /\ Found
    /\ property' = [property EXCEPT !.deleted = TRUE]
    /\ Acting(property.sold = 0)
    /\ Answer(a)
    /\ UNCHANGED <<image, announced, held>>

-----------------------------------------------------------------------------
(* PublishProperty *)

PublishRead(a) ==
    /\ Begin(a)
    /\ Found
    /\ property.status = "draft"
    /\ property.cover # NoImage
    /\ Enter(a, "publishing", NoProperty, NoImage, NoImage)
    /\ UNCHANGED <<property, image, announced, held, overtaken>>

\* Mutant of PublishCommit: the event is created outside the transaction and lost.
PublishWithoutEvent(a) ==
    /\ req[a].pc = "publishing"
    /\ Found
    /\ property.status = "draft"
    /\ property' = [property EXCEPT !.status = "active"]
    /\ Acting(property.cover # NoImage)
    /\ Answer(a)
    /\ UNCHANGED <<image, announced, held>>

\* Mutant of PublishCommit: UpdateStatus without AND status = 'draft'.
PublishAnyStatus(a) ==
    /\ req[a].pc = "publishing"
    /\ Found
    /\ property' = [property EXCEPT !.status = "active"]
    /\ announced' = announced + 1
    /\ Acting(property.cover # NoImage)
    /\ Answer(a)
    /\ UNCHANGED <<image, held>>

\* UpdateStatus, WHERE status = 'draft', and the outbox event in one transaction.
PublishCommit(a) ==
    /\ req[a].pc = "publishing"
    /\ Found
    /\ property.status = "draft"
    /\ property' = [property EXCEPT !.status = "active"]
    /\ announced' = announced + 1
    /\ Acting(property.cover # NoImage)
    /\ Answer(a)
    /\ UNCHANGED <<image, held>>

-----------------------------------------------------------------------------
(* UploadImage *)

UploadRead(a) ==
    /\ Begin(a)
    /\ Found
    /\ Enter(a, "uploading", property, NoImage, NoImage)
    /\ UNCHANGED <<property, image, announced, held, overtaken>>

\* The file is stored by now; the first image becomes the cover, others on demand.
UploadCheck(a) ==
    /\ req[a].pc = "uploading"
    /\ \/ Enter(a, "addCover", req[a].row, NoImage, NoImage)
       \/ Live # {} /\ Enter(a, "addPlain", req[a].row, NoImage, NoImage)
    /\ UNCHANGED <<property, image, announced, held, overtaken>>

AddPlain(a, i) ==
    /\ req[a].pc = "addPlain"
    /\ image[i].status = "none"
    /\ image' = [image EXCEPT ![i].status = "live"]
    /\ Answer(a)
    /\ UNCHANGED <<property, announced, held, overtaken>>

\* The whole property is saved from the copy read before the upload.
AddCover(a, i) ==
    /\ req[a].pc = "addCover"
    /\ image[i].status = "none"
    /\ ImagesUnlocked(a)
    /\ IndexAdmits
    /\ image' = Flagged(image, i)
    /\ Save([req[a].row EXCEPT !.cover = i])
    /\ Acting(CoverOnly(req[a].row))
    /\ Answer(a)
    /\ UNCHANGED <<announced, held>>

-----------------------------------------------------------------------------
(* SetCoverImage and DeleteImage *)

PickRead(a, i) ==
    /\ Begin(a)
    /\ i \in Live
    /\ Enter(a, "picking", NoProperty, i, NoImage)
    /\ UNCHANGED <<property, image, announced, held, overtaken>>

\* The transaction flags the image, then reads the property outside of it.
PickSet(a) ==
    /\ req[a].pc = "picking"
    /\ req[a].image \in Live
    /\ ImagesUnlocked(a)
    /\ IndexAdmits
    /\ Found
    /\ Enter(a, "saving", property, req[a].image, NoImage)
    /\ UNCHANGED <<property, image, announced, held, overtaken>>

\* wasCover is read before the transaction.
RemoveRead(a, i) ==
    /\ Begin(a)
    /\ i \in Live
    /\ Enter(a, IF image[i].is_cover THEN "removingCover" ELSE "removing", NoProperty, i, NoImage)
    /\ UNCHANGED <<property, image, announced, held, overtaken>>

RemoveOther(a) ==
    /\ req[a].pc = "removing"
    /\ req[a].image \in Live
    /\ ImagesUnlocked(a)
    /\ image' = [image EXCEPT ![req[a].image].status = "deleted"]
    /\ Acting(~image[req[a].image].is_cover)
    /\ Answer(a)
    /\ UNCHANGED <<property, announced, held>>

\* The remaining images are read outside the transaction and so include the one
\* it has just deleted: choosing that one fails, and so does any choice while the
\* flag of the deleted image stands.  What goes through is a removal of an image
\* that has ceased to be the cover.
RemoveCover(a, i) ==
    /\ req[a].pc = "removingCover"
    /\ req[a].image \in Live
    /\ i \in Live \ {req[a].image}
    /\ ImagesUnlocked(a)
    /\ IndexAdmits /\ ~image[req[a].image].is_cover
    /\ Found
    /\ Enter(a, "saving", property, i, req[a].image)
    /\ UNCHANGED <<property, image, announced, held, overtaken>>

WithoutRemoved(a) == [j \in Images |->
    IF j = req[a].removed THEN [image[j] EXCEPT !.status = "deleted"] ELSE image[j]]

\* Mutant of CoverCommit: the flags move, the property keeps its old URL.
CommitFlagsOnly(a) ==
    /\ Saving(a)
    /\ image' = Flagged(WithoutRemoved(a), req[a].image)
    /\ Acting(CoverOnly(req[a].row))
    /\ Answer(a)
    /\ UNCHANGED <<property, announced, held>>

CoverCommit(a) ==
    /\ Saving(a)
    /\ image' = Flagged(WithoutRemoved(a), req[a].image)
    /\ Save([req[a].row EXCEPT !.cover = req[a].image])
    /\ Acting(CoverOnly(req[a].row))
    /\ Answer(a)
    /\ UNCHANGED <<announced, held>>

-----------------------------------------------------------------------------
(* An investment, and requests that fail *)

\* What CreateInvestment does to the property, which it locks before it looks.
IncrementFunding(n) ==
    /\ Found
    /\ property.status = "active"
    /\ n <= property.units - property.sold
    /\ property' = [property EXCEPT !.sold = @ + n]
    /\ held' = held + n
    /\ UNCHANGED <<image, announced, req, overtaken>>

\* A check or a statement fails: the transaction, if any, is rolled back.
RequestFails(a) ==
    /\ req[a].pc # "idle"
    /\ Answer(a)
    /\ UNCHANGED <<property, image, announced, held, overtaken>>

AdminStep(a) ==
    \/ \E n \in Units : CreateProperty(a, n) \/ UpdateRead(a, n)
    \/ UpdateSave(a)
    \/ DeleteRead(a) \/ DeleteRow(a)
    \/ PublishRead(a) \/ PublishCommit(a)
    \/ UploadRead(a) \/ UploadCheck(a)
    \/ \E i \in Images : \/ AddPlain(a, i) \/ AddCover(a, i)
                         \/ PickRead(a, i) \/ RemoveRead(a, i) \/ RemoveCover(a, i)
    \/ PickSet(a)
    \/ RemoveOther(a)
    \/ CoverCommit(a)
    \/ RequestFails(a)

Next == \/ \E a \in Admins : AdminStep(a)
        \/ \E n \in Units : IncrementFunding(n)

Spec == Init /\ [][Next]_vars

-----------------------------------------------------------------------------
(* Properties *)

\* As long as no request has acted on something that had changed since it read
\* it, cover_image_url names the one image that is flagged as the cover, and that
\* image has not been deleted: the two tables agree although a removal decides
\* from a flag it read earlier and the cover moves meanwhile.
CoverAgrees == overtaken = 0 => \A i \in Images :
    /\ image[i].is_cover => image[i].status = "live"
    /\ property.cover = i <=> image[i].is_cover

\* A property that investors see was announced in the outbox, whatever copies of
\* its row are saved later, by whom and in which order.
VisibleWasAnnounced == property.status = "active" => announced > 0

\* The promises of ListingContract: published and announced once, with a cover;
\* never back to draft; slots sold are slots held; terms fixed by the first sale;
\* not removed while somebody holds slots.  They are kept by every step but the
\* acts on something that had changed since the request read it, also by the steps
\* that come after such an act.
Stage == IF property.deleted THEN "removed"
         ELSE IF property.status = "active" THEN "listed" ELSE property.status

Contract == INSTANCE ListingContract WITH
    stage <- Stage, hasCover <- (property.cover # NoImage), units <- property.units,
    sold <- property.sold

ContractSpec == /\ Contract!ContractInit
                /\ [][overtaken' # overtaken \/ Contract!ContractNext]_(Contract!cvars)

\* UpdateStatus only moves a draft to active, and nothing else is said to change
\* the status (property_repository.go:73-77): a published property stays published.
StaysPublished == [][property.status = "active" => property'.status = "active"]_vars
=============================================================================
