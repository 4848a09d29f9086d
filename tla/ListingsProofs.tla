--------------------------- MODULE ListingsProofs ---------------------------
(***************************************************************************)
(* Proofs about Listings, for any number of administrators' requests,      *)
(* images and slots.                                                       *)
(***************************************************************************)
EXTENDS Listings, TLAPS

-----------------------------------------------------------------------------
(* Type correctness *)

\* The conjuncts of Typed about the rows, and those about the requests.
RowsOK == /\ property \in PropertyRow
          /\ image \in [Images -> ImageRow]
          /\ announced \in Nat
          /\ held \in Nat
          /\ overtaken \in 0..MaxOvertaken

RequestsTyped == /\ req \in [Admins -> RequestState]
                 /\ \A a \in Admins : req[a].pc = "saving" => req[a].image \in Images

LEMMA TypeParts == /\ Typed <=> RowsOK /\ RequestsTyped
                   /\ Typed' <=> RowsOK' /\ RequestsTyped'
  BY DEF Typed, RowsOK, RequestsTyped

\* A request that moves on, or is answered, keeps the requests well typed and
\* leaves those of the others alone.
LEMMA Moved ==
  ASSUME RequestsTyped, NEW a \in Admins, NEW pc \in RequestPCs,
         NEW row \in PropertyRow, NEW i \in MaybeImage, NEW gone \in MaybeImage,
         pc = "saving" => i \in Images,
         Enter(a, pc, row, i, gone)
  PROVE  /\ RequestsTyped'
         /\ req'[a] = [pc |-> pc, row |-> row, image |-> i, removed |-> gone]
         /\ \A b \in Admins \ {a} : req'[b] = req[b]
<1>1. /\ req'[a] = [pc |-> pc, row |-> row, image |-> i, removed |-> gone]
      /\ \A b \in Admins \ {a} : req'[b] = req[b]
  BY DEF Enter, RequestsTyped
<1>2. req' \in [Admins -> RequestState]
  BY DEF Enter, RequestsTyped, RequestState
<1> QED
  BY <1>1, <1>2 DEF RequestsTyped

LEMMA Answered ==
  ASSUME RequestsTyped, NEW a \in Admins, Answer(a)
  PROVE  /\ RequestsTyped'
         /\ req'[a] = IdleRequest
         /\ \A b \in Admins \ {a} : req'[b] = req[b]
<1>1. IdleRequest \in RequestState
  BY DEF IdleRequest, RequestState, RequestPCs, MaybeImage, NoProperty, PropertyRow
<1>2. /\ req'[a] = IdleRequest
      /\ \A b \in Admins \ {a} : req'[b] = req[b]
  BY DEF Answer, RequestsTyped
<1>3. req' \in [Admins -> RequestState]
  BY <1>1 DEF Answer, RequestsTyped
<1> QED
  BY <1>2, <1>3 DEF RequestsTyped, IdleRequest

\* An act is counted at most up to the bound, and what is counted stays counted.
LEMMA Acted ==
  ASSUME overtaken \in 0..MaxOvertaken, NEW asRead \in BOOLEAN, Acting(asRead)
  PROVE  /\ overtaken' \in 0..MaxOvertaken
         /\ overtaken' = 0 => overtaken = 0
         /\ overtaken' = overtaken => asRead
  BY BoundAssumption DEF Acting

LEMMA RowsTyped ==
  /\ NoProperty \in PropertyRow
  /\ \A row \in PropertyRow :
       /\ \A n \in Units : [row EXCEPT !.units = n] \in PropertyRow
       /\ \A i \in MaybeImage : [row EXCEPT !.cover = i] \in PropertyRow
       /\ [row EXCEPT !.deleted = TRUE] \in PropertyRow
       /\ [row EXCEPT !.status = "active"] \in PropertyRow
       /\ \A n \in Nat : [row EXCEPT !.sold = row.sold + n] \in PropertyRow
<1>1. NoProperty \in PropertyRow
  BY DEF NoProperty, PropertyRow, MaybeImage
<1>2. ASSUME NEW row \in PropertyRow
      PROVE  /\ \A n \in Units : [row EXCEPT !.units = n] \in PropertyRow
             /\ \A i \in MaybeImage : [row EXCEPT !.cover = i] \in PropertyRow
             /\ [row EXCEPT !.deleted = TRUE] \in PropertyRow
             /\ [row EXCEPT !.status = "active"] \in PropertyRow
  BY DEF PropertyRow
<1>3. ASSUME NEW row \in PropertyRow, NEW n \in Nat
      PROVE  [row EXCEPT !.sold = row.sold + n] \in PropertyRow
  <2>1. row.sold + n \in Nat
    BY DEF PropertyRow
  <2> QED
    BY <2>1 DEF PropertyRow
<1> QED
  BY <1>1, <1>2, <1>3

LEMMA FlaggedTyped ==
  ASSUME NEW rows \in [Images -> ImageRow], NEW i \in Images
  PROVE  Flagged(rows, i) \in [Images -> ImageRow]
  BY DEF Flagged, ImageRow

LEMMA WithoutRemovedTyped ==
  ASSUME Typed, NEW a \in Admins
  PROVE  WithoutRemoved(a) \in [Images -> ImageRow]
  BY DEF WithoutRemoved, ImageRow, Typed

LEMMA InitTyped == Init => Typed
<1>1. IdleRequest \in RequestState
  BY DEF IdleRequest, RequestState, RequestPCs, MaybeImage, NoProperty, PropertyRow
<1>2. NoRow \in ImageRow
  BY DEF NoRow, ImageRow
<1> QED
  BY <1>1, <1>2, RowsTyped, BoundAssumption DEF Init, Typed, IdleRequest

LEMMA NextTyped == Typed /\ [Next]_vars => Typed'
<1> SUFFICES ASSUME Typed, [Next]_vars PROVE RowsOK' /\ RequestsTyped'
  BY TypeParts
<1>0. /\ property \in PropertyRow
      /\ RowsOK /\ RequestsTyped
      /\ \A a \in Admins : /\ req[a].row \in PropertyRow
                           /\ req[a].image \in MaybeImage
                           /\ req[a].removed \in MaybeImage
  BY TypeParts DEF RowsOK, RequestsTyped, RequestState
<1>1. ASSUME NEW a \in Admins, NEW n \in Units, CreateProperty(a, n) \/ UpdateRead(a, n)
      PROVE  RowsOK' /\ RequestsTyped'
  <2>1. CASE CreateProperty(a, n)
    BY <1>0, <2>1 DEF CreateProperty, RowsOK, RequestsTyped, NoProperty, PropertyRow, MaybeImage
  <2>2. CASE UpdateRead(a, n)
    <3>1. [property EXCEPT !.units = n] \in PropertyRow /\ NoImage \in MaybeImage
      BY <1>0, RowsTyped DEF MaybeImage
    <3>2. RequestsTyped'
      BY <1>0, <2>2, <3>1, Moved DEF UpdateRead, RequestPCs
    <3> QED
      BY <1>0, <2>2, <3>2 DEF UpdateRead, RowsOK
  <2> QED
    BY <1>1, <2>1, <2>2
<1>2. ASSUME NEW a \in Admins, UpdateSave(a) PROVE RowsOK' /\ RequestsTyped'
  <2>1. overtaken' \in 0..MaxOvertaken
    BY <1>0, <1>2, Acted DEF UpdateSave, TermsOnly, RowsOK
  <2> QED
    BY <1>0, <1>2, <2>1, Answered DEF UpdateSave, Save, RowsOK
<1>3. ASSUME NEW a \in Admins,
             DeleteRead(a) \/ PublishRead(a) \/ UploadRead(a) \/ UploadCheck(a) \/ PickSet(a)
      PROVE  RowsOK' /\ RequestsTyped'
  <2>1. NoProperty \in PropertyRow /\ NoImage \in MaybeImage
    BY RowsTyped DEF MaybeImage
  <2>2. CASE DeleteRead(a)
    BY <1>0, <2>1, <2>2, Moved DEF DeleteRead, RowsOK, RequestPCs
  <2>3. CASE PublishRead(a)
    BY <1>0, <2>1, <2>3, Moved DEF PublishRead, RowsOK, RequestPCs
  <2>4. CASE UploadRead(a)
    BY <1>0, <2>1, <2>4, Moved DEF UploadRead, RowsOK, RequestPCs
  <2>5. CASE UploadCheck(a)
    BY <1>0, <2>1, <2>5, Moved DEF UploadCheck, RowsOK, RequestPCs
  <2>6. CASE PickSet(a)
    BY <1>0, <2>1, <2>6, Moved DEF PickSet, Live, RowsOK, RequestPCs
  <2> QED
    BY <1>3, <2>2, <2>3, <2>4, <2>5, <2>6
<1>4. ASSUME NEW a \in Admins, DeleteRow(a) \/ PublishCommit(a) PROVE RowsOK' /\ RequestsTyped'
  <2>1. property' \in PropertyRow
    BY <1>0, <1>4, RowsTyped DEF DeleteRow, PublishCommit
  <2>2. overtaken' \in 0..MaxOvertaken
    BY <1>0, <1>4, Acted DEF DeleteRow, PublishCommit, RowsOK
  <2> QED
    BY <1>0, <1>4, <2>1, <2>2, Answered DEF DeleteRow, PublishCommit, RowsOK
<1>5. ASSUME NEW a \in Admins, NEW i \in Images, AddPlain(a, i) \/ AddCover(a, i)
      PROVE  RowsOK' /\ RequestsTyped'
  <2>1. CASE AddPlain(a, i)
    <3>1. image' \in [Images -> ImageRow]
      BY <1>0, <2>1 DEF AddPlain, RowsOK, ImageRow
    <3> QED
      BY <1>0, <2>1, <3>1, Answered DEF AddPlain, RowsOK
  <2>2. CASE AddCover(a, i)
    <3>1. [req[a].row EXCEPT !.cover = i] \in PropertyRow
      BY <1>0, RowsTyped DEF MaybeImage
    <3>2. image' \in [Images -> ImageRow]
      BY <1>0, <2>2, FlaggedTyped DEF AddCover, RowsOK
    <3>3. overtaken' \in 0..MaxOvertaken
      BY <1>0, <2>2, Acted DEF AddCover, CoverOnly, RowsOK
    <3> QED
      BY <1>0, <2>2, <3>1, <3>2, <3>3, Answered DEF AddCover, Save, RowsOK
  <2> QED
    BY <1>5, <2>1, <2>2
<1>6. ASSUME NEW a \in Admins, NEW i \in Images,
             PickRead(a, i) \/ RemoveRead(a, i) \/ RemoveCover(a, i)
      PROVE  RowsOK' /\ RequestsTyped'
  <2>1. NoProperty \in PropertyRow /\ NoImage \in MaybeImage /\ i \in MaybeImage
    BY RowsTyped DEF MaybeImage
  <2>2. CASE PickRead(a, i)
    BY <1>0, <2>1, <2>2, Moved DEF PickRead, RowsOK, RequestPCs
  <2>3. CASE RemoveRead(a, i)
    <3>1. (IF image[i].is_cover THEN "removingCover" ELSE "removing") \in RequestPCs
      BY DEF RequestPCs
    <3>2. RequestsTyped'
      BY <1>0, <2>1, <2>3, <3>1, Moved DEF RemoveRead
    <3> QED
      BY <1>0, <2>3, <3>2 DEF RemoveRead, RowsOK
  <2>4. CASE RemoveCover(a, i)
    BY <1>0, <2>1, <2>4, Moved DEF RemoveCover, RowsOK, RequestPCs
  <2> QED
    BY <1>6, <2>2, <2>3, <2>4
<1>7. ASSUME NEW a \in Admins, RemoveOther(a) PROVE RowsOK' /\ RequestsTyped'
  <2>1. image' \in [Images -> ImageRow]
    BY <1>0, <1>7 DEF RemoveOther, Live, RowsOK, ImageRow
  <2>2. overtaken' \in 0..MaxOvertaken
    BY <1>0, <1>7, Acted DEF RemoveOther, RowsOK
  <2> QED
    BY <1>0, <1>7, <2>1, <2>2, Answered DEF RemoveOther, RowsOK
<1>8. ASSUME NEW a \in Admins, CoverCommit(a) PROVE RowsOK' /\ RequestsTyped'
  <2>0. req[a].image \in Images
    BY <1>8 DEF CoverCommit, Saving, Typed
  <2>1. [req[a].row EXCEPT !.cover = req[a].image] \in PropertyRow
    BY <1>0, RowsTyped
  <2>2. image' \in [Images -> ImageRow]
    BY <1>8, <2>0, FlaggedTyped, WithoutRemovedTyped DEF CoverCommit
  <2>3. overtaken' \in 0..MaxOvertaken
    BY <1>0, <1>8, Acted DEF CoverCommit, CoverOnly, RowsOK
  <2> QED
    BY <1>0, <1>8, <2>1, <2>2, <2>3, Answered DEF CoverCommit, Save, RowsOK
<1>9. ASSUME NEW n \in Units, IncrementFunding(n) PROVE RowsOK' /\ RequestsTyped'
  <2>1. n \in Nat
    BY UnitsAssumption
  <2>2. property' \in PropertyRow
    BY <1>0, <1>9, <2>1, RowsTyped DEF IncrementFunding
  <2>3. held' \in Nat
    BY <1>0, <1>9, <2>1 DEF IncrementFunding, RowsOK
  <2> QED
    BY <1>0, <1>9, <2>2, <2>3 DEF IncrementFunding, RowsOK, RequestsTyped
<1>10. ASSUME NEW a \in Admins, RequestFails(a) PROVE RowsOK' /\ RequestsTyped'
  BY <1>0, <1>10, Answered DEF RequestFails, RowsOK
<1>11. CASE UNCHANGED vars
  BY <1>0, <1>11 DEF vars, RowsOK, RequestsTyped
<1> QED
  BY <1>1, <1>2, <1>3, <1>4, <1>5, <1>6, <1>7, <1>8, <1>9, <1>10, <1>11 DEF Next, AdminStep

LEMMA TypedAlways == Spec => []Typed
  BY InitTyped, NextTyped, PTL DEF Spec

-----------------------------------------------------------------------------
(* What overlapping requests cannot break *)

\* The strengthening: what is announced is so for the copies as well.
CopiesAnnounced == \A a \in Admins : req[a].row.status = "active" => announced > 0

LEMMA NextAnnounced ==
  Typed /\ VisibleWasAnnounced /\ CopiesAnnounced /\ [Next]_vars
    => VisibleWasAnnounced' /\ CopiesAnnounced'
<1> SUFFICES ASSUME Typed, VisibleWasAnnounced, CopiesAnnounced, [Next]_vars
             PROVE  VisibleWasAnnounced' /\ CopiesAnnounced'
  OBVIOUS
<1>0. /\ announced \in Nat
      /\ req \in [Admins -> RequestState]
  BY DEF Typed
<1>a. ASSUME NEW a \in Admins, Answer(a), announced' \in {announced, announced + 1}
      PROVE  CopiesAnnounced'
  <2>1. \A b \in Admins : req'[b] = IF b = a THEN IdleRequest ELSE req[b]
    BY <1>0, <1>a DEF Answer
  <2> QED
    BY <1>0, <1>a, <2>1 DEF CopiesAnnounced, IdleRequest, NoProperty
<1>b. ASSUME NEW a \in Admins, NEW pc, NEW row, NEW i, NEW gone, Enter(a, pc, row, i, gone),
             row.status = "active" => announced > 0, announced' = announced
      PROVE  CopiesAnnounced'
  <2>1. \A b \in Admins :
          req'[b] = IF b = a THEN [pc |-> pc, row |-> row, image |-> i, removed |-> gone]
                             ELSE req[b]
    BY <1>0, <1>b DEF Enter
  <2> QED
    BY <1>b, <2>1 DEF CopiesAnnounced
<1>1. ASSUME NEW a \in Admins, NEW n \in Units, CreateProperty(a, n) \/ UpdateRead(a, n)
      PROVE  VisibleWasAnnounced' /\ CopiesAnnounced'
  <2>1. CASE CreateProperty(a, n)
    BY <2>1 DEF CreateProperty, VisibleWasAnnounced, CopiesAnnounced, NoProperty
  <2>2. CASE UpdateRead(a, n)
    <3>1. [property EXCEPT !.units = n].status = property.status
      BY DEF Typed, PropertyRow
    <3> QED
      BY <1>b, <2>2, <3>1 DEF UpdateRead, VisibleWasAnnounced
  <2> QED
    BY <1>1, <2>1, <2>2
<1>2. ASSUME NEW a \in Admins, UpdateSave(a) PROVE VisibleWasAnnounced' /\ CopiesAnnounced'
  BY <1>a, <1>2 DEF UpdateSave, Save, VisibleWasAnnounced, CopiesAnnounced
<1>3. ASSUME NEW a \in Admins, DeleteRead(a) \/ PublishRead(a)
      PROVE  VisibleWasAnnounced' /\ CopiesAnnounced'
  BY <1>b, <1>3 DEF DeleteRead, PublishRead, VisibleWasAnnounced, NoProperty
<1>4. ASSUME NEW a \in Admins, UploadRead(a) \/ PickSet(a)
      PROVE  VisibleWasAnnounced' /\ CopiesAnnounced'
  BY <1>b, <1>4 DEF UploadRead, PickSet, VisibleWasAnnounced
<1>5. ASSUME NEW a \in Admins, UploadCheck(a) PROVE VisibleWasAnnounced' /\ CopiesAnnounced'
  BY <1>b, <1>5 DEF UploadCheck, VisibleWasAnnounced, CopiesAnnounced
<1>6. ASSUME NEW a \in Admins, DeleteRow(a) PROVE VisibleWasAnnounced' /\ CopiesAnnounced'
  <2>1. property'.status = property.status
    BY <1>6 DEF DeleteRow, Typed, PropertyRow
  <2> QED
    BY <1>a, <1>6, <2>1 DEF DeleteRow, VisibleWasAnnounced
<1>7. ASSUME NEW a \in Admins, PublishCommit(a) PROVE VisibleWasAnnounced' /\ CopiesAnnounced'
  BY <1>0, <1>a, <1>7 DEF PublishCommit, VisibleWasAnnounced
<1>8. ASSUME NEW a \in Admins, NEW i \in Images, AddPlain(a, i) \/ AddCover(a, i)
      PROVE  VisibleWasAnnounced' /\ CopiesAnnounced'
  <2>1. CASE AddPlain(a, i)
    BY <1>a, <2>1 DEF AddPlain, VisibleWasAnnounced
  <2>2. CASE AddCover(a, i)
    <3>1. property'.status = req[a].row.status
      BY <1>0, <2>2 DEF AddCover, Save, RequestState, PropertyRow
    <3> QED
      BY <1>a, <2>2, <3>1 DEF AddCover, VisibleWasAnnounced, CopiesAnnounced
  <2> QED
    BY <1>8, <2>1, <2>2
<1>9. ASSUME NEW a \in Admins, NEW i \in Images,
             PickRead(a, i) \/ RemoveRead(a, i) \/ RemoveCover(a, i)
      PROVE  VisibleWasAnnounced' /\ CopiesAnnounced'
  BY <1>b, <1>9 DEF PickRead, RemoveRead, RemoveCover, VisibleWasAnnounced, NoProperty
<1>10. ASSUME NEW a \in Admins, RemoveOther(a) \/ RequestFails(a)
       PROVE  VisibleWasAnnounced' /\ CopiesAnnounced'
  BY <1>a, <1>10 DEF RemoveOther, RequestFails, VisibleWasAnnounced
<1>11. ASSUME NEW a \in Admins, CoverCommit(a) PROVE VisibleWasAnnounced' /\ CopiesAnnounced'
  <2>1. property'.status = req[a].row.status
    BY <1>0, <1>11 DEF CoverCommit, Save, RequestState, PropertyRow
  <2> QED
    BY <1>a, <1>11, <2>1 DEF CoverCommit, VisibleWasAnnounced, CopiesAnnounced
<1>12. ASSUME NEW n \in Units, IncrementFunding(n)
       PROVE  VisibleWasAnnounced' /\ CopiesAnnounced'
  <2>1. property'.status = property.status
    BY <1>12 DEF IncrementFunding, Typed, PropertyRow
  <2> QED
    BY <1>12, <2>1 DEF IncrementFunding, VisibleWasAnnounced, CopiesAnnounced
<1>13. CASE UNCHANGED vars
  BY <1>13 DEF vars, VisibleWasAnnounced, CopiesAnnounced
<1> QED
  BY <1>1, <1>2, <1>3, <1>4, <1>5, <1>6, <1>7, <1>8, <1>9, <1>10, <1>11, <1>12, <1>13
     DEF Next, AdminStep

\* A property that investors see was announced, however the requests of the
\* administrators overlap and whatever copies of its row they save.
THEOREM VisibleWasAnnouncedCorrect == Spec => []VisibleWasAnnounced
<1>1. Init => VisibleWasAnnounced /\ CopiesAnnounced
  BY DEF Init, VisibleWasAnnounced, CopiesAnnounced, IdleRequest, NoProperty
<1> QED
  BY <1>1, TypedAlways, NextAnnounced, PTL DEF Spec

-----------------------------------------------------------------------------
(* What a request knows when it acts *)

\* Whatever copies were saved: what is not there yet has no data, and what is
\* there has slots.
RowFacts == /\ property.status = "none" => property = NoProperty
            /\ property.status # "none" => property.units \in Units

\* A copy that may be saved is one of a row that was found.
CopyFact(a) == req[a].pc \in {"editing", "uploading", "addCover", "saving"} =>
    /\ req[a].row.status # "none"
    /\ ~req[a].row.deleted
    /\ req[a].row.units \in Units

CopyFacts == \A a \in Admins : CopyFact(a)

\* A transaction that has set a cover and not committed yet is alone, and the
\* images are still as it saw them.
ImageFact(a) == Saving(a) =>
    /\ req[a].image \in Live
    /\ req[a].removed # req[a].image
    /\ req[a].removed \in Images => ~image[req[a].removed].is_cover
    /\ \A b \in Admins \ {a} : ~Saving(b)

ImageFacts == \A a \in Admins : ImageFact(a)

ListingInv == Typed /\ RowFacts /\ CopyFacts /\ ImageFacts /\ CoverAgrees

\* An act on what is as the request read it: the row found, and the columns that
\* the request does not set, are what they were.
LEMMA AsRead ==
  ASSUME Typed, CopyFacts, NEW a \in Admins, overtaken' = overtaken
  PROVE  /\ UpdateSave(a) => /\ Found
                             /\ property' = [property EXCEPT !.units = req[a].row.units]
                             /\ req[a].row.units = property.units \/ property.sold = 0
         /\ DeleteRow(a) => property.sold = 0
         /\ PublishCommit(a) => property.cover # NoImage
         /\ \A i \in Images : AddCover(a, i) =>
              Found /\ property' = [property EXCEPT !.cover = i]
         /\ RemoveOther(a) => ~image[req[a].image].is_cover
         /\ CoverCommit(a) => /\ Found
                              /\ property' = [property EXCEPT !.cover = req[a].image]
<1>0. /\ overtaken \in 0..MaxOvertaken
      /\ property \in PropertyRow
      /\ req[a].row \in PropertyRow
      /\ CopyFact(a)
  BY DEF Typed, CopyFacts, RequestState
<1>1. ASSUME UpdateSave(a)
      PROVE  /\ Found
             /\ property' = [property EXCEPT !.units = req[a].row.units]
             /\ req[a].row.units = property.units \/ property.sold = 0
  <2>1. TermsOnly(req[a].row)
    BY <1>0, <1>1, Acted DEF UpdateSave, TermsOnly
  <2>2. property' = req[a].row /\ req[a].pc = "editing"
    BY <1>1 DEF UpdateSave, Save
  <2> QED
    BY <1>0, <2>1, <2>2 DEF TermsOnly, CopyFact, Found, PropertyRow
<1>2. ASSUME DeleteRow(a) PROVE property.sold = 0
  BY <1>0, <1>2, Acted DEF DeleteRow
<1>6. ASSUME PublishCommit(a) PROVE property.cover # NoImage
  BY <1>0, <1>6, Acted DEF PublishCommit
<1>3. ASSUME NEW i \in Images, AddCover(a, i)
      PROVE  Found /\ property' = [property EXCEPT !.cover = i]
  <2>1. CoverOnly(req[a].row)
    BY <1>0, <1>3, Acted DEF AddCover, CoverOnly
  <2>2. property' = [req[a].row EXCEPT !.cover = i] /\ req[a].pc = "addCover"
    BY <1>3 DEF AddCover, Save
  <2> QED
    BY <1>0, <2>1, <2>2 DEF CoverOnly, CopyFact, Found, PropertyRow
<1>4. ASSUME RemoveOther(a) PROVE ~image[req[a].image].is_cover
  BY <1>0, <1>4, Acted DEF RemoveOther
<1>5. ASSUME CoverCommit(a)
      PROVE  /\ Found
             /\ property' = [property EXCEPT !.cover = req[a].image]
  <2>1. CoverOnly(req[a].row)
    BY <1>0, <1>5, Acted DEF CoverCommit, CoverOnly
  <2>2. property' = [req[a].row EXCEPT !.cover = req[a].image] /\ req[a].pc = "saving"
    BY <1>5 DEF CoverCommit, Save, Saving
  <2> QED
    BY <1>0, <2>1, <2>2 DEF CoverOnly, CopyFact, Found, PropertyRow
<1> QED
  BY <1>1, <1>2, <1>3, <1>4, <1>5, <1>6

\* What was overtaken once stays counted.
LEMMA Counted ==
  ASSUME Typed, [Next]_vars, overtaken' = 0
  PROVE  overtaken = 0
<1>0. overtaken \in 0..MaxOvertaken
  BY DEF Typed
<1>1. CASE UNCHANGED overtaken
  BY <1>1
<1>2. CASE \E asRead \in BOOLEAN : Acting(asRead)
  BY <1>0, <1>2, Acted
<1>3. ASSUME NEW a \in Admins, AdminStep(a) PROVE overtaken = 0
  <2>1. CASE \E n \in Units : CreateProperty(a, n) \/ UpdateRead(a, n)
    BY <1>1, <2>1 DEF CreateProperty, UpdateRead
  <2>2. CASE \/ DeleteRead(a) \/ PublishRead(a) \/ UploadRead(a) \/ UploadCheck(a)
             \/ PickSet(a) \/ RequestFails(a)
    BY <1>1, <2>2 DEF DeleteRead, PublishRead, UploadRead, UploadCheck, PickSet, RequestFails
  <2>3. CASE \E i \in Images : \/ AddPlain(a, i) \/ PickRead(a, i)
                               \/ RemoveRead(a, i) \/ RemoveCover(a, i)
    BY <1>1, <2>3 DEF AddPlain, PickRead, RemoveRead, RemoveCover
  <2>4. CASE UpdateSave(a)
    BY <1>2, <2>4 DEF UpdateSave, TermsOnly
  <2>5. CASE DeleteRow(a) \/ PublishCommit(a)
    BY <1>2, <2>5 DEF DeleteRow, PublishCommit
  <2>6. CASE CoverCommit(a) \/ \E i \in Images : AddCover(a, i)
    BY <1>2, <2>6 DEF CoverCommit, AddCover, CoverOnly
  <2>7. CASE RemoveOther(a)
    BY <1>2, <2>7 DEF RemoveOther
  <2> QED
    BY <1>3, <2>1, <2>2, <2>3, <2>4, <2>5, <2>6, <2>7 DEF AdminStep
<1>4. ASSUME NEW n \in Units, IncrementFunding(n) PROVE overtaken = 0
  BY <1>1, <1>4 DEF IncrementFunding
<1>5. CASE UNCHANGED vars
  BY <1>1, <1>5 DEF vars
<1> QED
  BY <1>3, <1>4, <1>5 DEF Next

\* A request moves on, or is answered, and what it has copied is of a row found.
LEMMA CopiesKept ==
  ASSUME CopyFacts, NEW a \in Admins, \A b \in Admins \ {a} : req'[b] = req[b],
         CopyFact(a)'
  PROVE  CopyFacts'
<1>1. ASSUME NEW b \in Admins \ {a} PROVE CopyFact(b)'
  BY <1>1 DEF CopyFacts, CopyFact
<1> QED
  BY <1>1 DEF CopyFacts

LEMMA NextRow ==
  ASSUME Typed, RowFacts, CopyFacts, [Next]_vars
  PROVE  RowFacts' /\ CopyFacts'
<1>0. /\ property \in PropertyRow
      /\ RequestsTyped
      /\ \A a \in Admins : CopyFact(a) /\ req[a].row \in PropertyRow
  BY TypeParts DEF RowsOK, CopyFacts, RequestsTyped, RequestState
<1>a. ASSUME NEW a \in Admins, Answer(a) PROVE CopyFacts'
  <2>1. CopyFact(a)'
    BY <1>0, <1>a, Answered DEF CopyFact, IdleRequest
  <2> QED
    BY <1>0, <1>a, <2>1, Answered, CopiesKept
<1>b. ASSUME UNCHANGED property PROVE RowFacts'
  BY <1>b DEF RowFacts
<1>c. NoImage \in MaybeImage /\ NoProperty \in PropertyRow
  BY RowsTyped DEF MaybeImage
<1>d. ASSUME NEW a \in Admins, NEW pc \in RequestPCs, NEW row \in PropertyRow,
             NEW i \in MaybeImage, NEW gone \in MaybeImage, Enter(a, pc, row, i, gone),
             pc = "saving" => i \in Images,
             pc \in {"editing", "uploading", "addCover", "saving"} =>
               row.status # "none" /\ ~row.deleted /\ row.units \in Units,
             UNCHANGED property
      PROVE  RowFacts' /\ CopyFacts'
  <2>1. /\ req'[a] = [pc |-> pc, row |-> row, image |-> i, removed |-> gone]
        /\ \A b \in Admins \ {a} : req'[b] = req[b]
    BY <1>0, <1>d, Moved
  <2>2. CopyFact(a)'
    BY <1>d, <2>1 DEF CopyFact
  <2> QED
    BY <1>b, <1>d, <2>1, <2>2, CopiesKept
<1>e. Found => property.status # "none" /\ ~property.deleted /\ property.units \in Units
  BY DEF Found, RowFacts
<1>1. ASSUME NEW a \in Admins, NEW n \in Units, CreateProperty(a, n)
      PROVE  RowFacts' /\ CopyFacts'
  <2>1. /\ property = NoProperty
        /\ property' = [NoProperty EXCEPT !.status = "draft", !.units = n]
        /\ UNCHANGED req
    BY <1>1 DEF CreateProperty, RowFacts
  <2>2. RowFacts'
    BY <2>1 DEF RowFacts, NoProperty
  <2>3. ASSUME NEW b \in Admins PROVE CopyFact(b)'
    BY <1>0, <2>1 DEF CopyFact, NoProperty
  <2> QED
    BY <2>2, <2>3 DEF CopyFacts
<1>2. ASSUME NEW a \in Admins, NEW n \in Units, UpdateRead(a, n) PROVE RowFacts' /\ CopyFacts'
  <2> DEFINE row == [property EXCEPT !.units = n]
  <2>1. /\ row \in PropertyRow
        /\ row.status = property.status /\ row.deleted = property.deleted /\ row.units = n
    BY <1>0, RowsTyped DEF PropertyRow
  <2>2. /\ Enter(a, "editing", row, NoImage, NoImage)
        /\ Found
        /\ UNCHANGED property
    BY <1>2 DEF UpdateRead
  <2>3. "editing" \in RequestPCs
    BY DEF RequestPCs
  <2> QED
    BY <1>c, <1>d, <1>e, <2>1, <2>2, <2>3
<1>3. ASSUME NEW a \in Admins, UpdateSave(a) PROVE RowFacts' /\ CopyFacts'
  <2>1. /\ property' = req[a].row
        /\ req[a].pc = "editing"
        /\ Answer(a)
    BY <1>3 DEF UpdateSave, Save
  <2>2. RowFacts'
    BY <1>0, <2>1 DEF RowFacts, CopyFact
  <2> QED
    BY <1>a, <2>1, <2>2
<1>4. ASSUME NEW a \in Admins, DeleteRead(a) \/ PublishRead(a) PROVE RowFacts' /\ CopyFacts'
  <2>1. PICK pc \in {"deleting", "publishing"} : Enter(a, pc, NoProperty, NoImage, NoImage)
    BY <1>4 DEF DeleteRead, PublishRead
  <2>2. pc \in RequestPCs /\ UNCHANGED property
    BY <1>4 DEF DeleteRead, PublishRead, RequestPCs
  <2> QED
    BY <1>c, <1>d, <2>1, <2>2
<1>5. ASSUME NEW a \in Admins, DeleteRow(a) PROVE RowFacts' /\ CopyFacts'
  <2>1. RowFacts'
    BY <1>0, <1>5, <1>e DEF DeleteRow, RowFacts, PropertyRow, Found
  <2> QED
    BY <1>5, <1>a, <2>1 DEF DeleteRow
<1>6. ASSUME NEW a \in Admins, PublishCommit(a) PROVE RowFacts' /\ CopyFacts'
  <2>1. RowFacts'
    BY <1>0, <1>6, <1>e DEF PublishCommit, RowFacts, PropertyRow, Found
  <2> QED
    BY <1>6, <1>a, <2>1 DEF PublishCommit
<1>7. ASSUME NEW a \in Admins, UploadRead(a) \/ UploadCheck(a) PROVE RowFacts' /\ CopyFacts'
  <2>1. PICK pc \in {"uploading", "addPlain", "addCover"}, row \in PropertyRow :
          /\ Enter(a, pc, row, NoImage, NoImage)
          /\ row.status # "none" /\ ~row.deleted /\ row.units \in Units
    <3>1. CASE UploadRead(a)
      BY <1>0, <1>e, <3>1 DEF UploadRead
    <3>2. CASE UploadCheck(a)
      <4>1. /\ req[a].row \in PropertyRow
            /\ req[a].row.status # "none" /\ ~req[a].row.deleted /\ req[a].row.units \in Units
        BY <1>0, <3>2 DEF UploadCheck, CopyFact
      <4> QED
        BY <3>2, <4>1 DEF UploadCheck
    <3> QED
      BY <1>7, <3>1, <3>2
  <2>2. pc \in RequestPCs /\ UNCHANGED property
    BY <1>7 DEF UploadRead, UploadCheck, RequestPCs
  <2> QED
    BY <1>c, <1>d, <2>1, <2>2
<1>8. ASSUME NEW a \in Admins, NEW i \in Images, AddPlain(a, i) PROVE RowFacts' /\ CopyFacts'
  BY <1>8, <1>a, <1>b DEF AddPlain
<1>9. ASSUME NEW a \in Admins, NEW i \in Images, AddCover(a, i) PROVE RowFacts' /\ CopyFacts'
  <2>1. /\ property' = [req[a].row EXCEPT !.cover = i]
        /\ req[a].pc = "addCover"
        /\ Answer(a)
    BY <1>9 DEF AddCover, Save
  <2>2. RowFacts'
    BY <1>0, <2>1 DEF RowFacts, CopyFact, PropertyRow
  <2> QED
    BY <1>a, <2>1, <2>2
<1>10. ASSUME NEW a \in Admins, NEW i \in Images, PickRead(a, i) \/ RemoveRead(a, i)
       PROVE  RowFacts' /\ CopyFacts'
  <2>1. PICK pc \in {"picking", "removing", "removingCover"} :
          Enter(a, pc, NoProperty, i, NoImage)
    BY <1>10 DEF PickRead, RemoveRead
  <2>2. pc \in RequestPCs /\ i \in MaybeImage /\ UNCHANGED property
    BY <1>10 DEF PickRead, RemoveRead, RequestPCs, MaybeImage
  <2> QED
    BY <1>c, <1>d, <2>1, <2>2
<1>11. ASSUME NEW a \in Admins, PickSet(a) \/ \E i \in Images : RemoveCover(a, i)
       PROVE  RowFacts' /\ CopyFacts'
  <2>1. PICK j \in Images, gone \in MaybeImage : Enter(a, "saving", property, j, gone)
    BY <1>0, <1>11, <1>c DEF PickSet, RemoveCover, Live, RequestsTyped, RequestState
  <2>2. /\ "saving" \in RequestPCs /\ j \in MaybeImage
        /\ Found
        /\ UNCHANGED property
    BY <1>11 DEF PickSet, RemoveCover, RequestPCs, MaybeImage
  <2> QED
    BY <1>0, <1>d, <1>e, <2>1, <2>2
<1>12. ASSUME NEW a \in Admins, RemoveOther(a) \/ RequestFails(a) PROVE RowFacts' /\ CopyFacts'
  BY <1>12, <1>a, <1>b DEF RemoveOther, RequestFails
<1>13. ASSUME NEW a \in Admins, CoverCommit(a) PROVE RowFacts' /\ CopyFacts'
  <2>1. /\ property' = [req[a].row EXCEPT !.cover = req[a].image]
        /\ req[a].pc = "saving" /\ req[a].image \in Images
        /\ Answer(a)
    BY <1>13 DEF CoverCommit, Save, Saving, Typed
  <2>2. RowFacts'
    BY <1>0, <2>1 DEF RowFacts, CopyFact, PropertyRow
  <2> QED
    BY <1>a, <2>1, <2>2
<1>14. ASSUME NEW n \in Units, IncrementFunding(n) PROVE RowFacts' /\ CopyFacts'
  <2>1. /\ property'.status = property.status /\ property'.units = property.units
        /\ property.status # "none"
        /\ UNCHANGED req
    BY <1>0, <1>14 DEF IncrementFunding, Found, PropertyRow
  <2>2. RowFacts'
    BY <2>1 DEF RowFacts
  <2>3. ASSUME NEW b \in Admins PROVE CopyFact(b)'
    BY <1>0, <2>1 DEF CopyFact
  <2> QED
    BY <2>2, <2>3 DEF CopyFacts
<1>15. CASE UNCHANGED vars
  <2>1. ASSUME NEW b \in Admins PROVE CopyFact(b)'
    BY <1>0, <1>15 DEF vars, CopyFact
  <2> QED
    BY <1>15, <1>b, <2>1 DEF vars, CopyFacts
<1>16. ASSUME NEW a \in Admins, AdminStep(a) PROVE RowFacts' /\ CopyFacts'
  BY <1>16, <1>1, <1>2, <1>3, <1>4, <1>5, <1>6, <1>7, <1>8, <1>9, <1>10, <1>11, <1>12, <1>13
     DEF AdminStep
<1> QED
  BY <1>14, <1>15, <1>16 DEF Next

\* A request that moves on, or is answered, while the images stay as they are.
LEMMA ImagesKept ==
  ASSUME ImageFacts, NEW a \in Admins, image' = image,
         \A b \in Admins \ {a} : req'[b] = req[b],
         ImageFact(a)', Saving(a)' => ImagesUnlocked(a)
  PROVE  ImageFacts'
<1>1. ASSUME NEW b \in Admins \ {a} PROVE ImageFact(b)'
  BY <1>1 DEF ImageFacts, ImageFact, Saving, Live, ImagesUnlocked
<1> QED
  BY <1>1 DEF ImageFacts

\* A request that is answered after it changed images when no transaction was
\* about to set a cover.
LEMMA ImagesWritten ==
  ASSUME RequestsTyped, NEW a \in Admins, Answer(a), ImagesUnlocked(a)
  PROVE  ImageFacts'
<1>1. ASSUME NEW b \in Admins PROVE ~Saving(b)'
  BY <1>1, Answered DEF ImagesUnlocked, Saving, IdleRequest
<1> QED
  BY <1>1 DEF ImageFacts, ImageFact

\* Setting a cover leaves exactly that image flagged, and it is live, when no
\* deleted image was flagged before.
LEMMA CoverSet ==
  ASSUME NEW rows \in [Images -> ImageRow], NEW i \in Images, image' = Flagged(rows, i),
         \A j \in Images : rows[j].is_cover => rows[j].status = "live",
         property'.cover = i
  PROVE  CoverAgrees'
<1>1. ASSUME NEW j \in Images
      PROVE  /\ image'[j].is_cover <=> j = i
             /\ image'[j].is_cover => image'[j].status = "live"
  <2>1. CASE j = i
    BY <2>1 DEF Flagged
  <2>2. CASE j # i /\ rows[j].status = "live"
    BY <2>2 DEF Flagged, ImageRow
  <2>3. CASE j # i /\ rows[j].status # "live"
    BY <2>3 DEF Flagged, ImageRow
  <2> QED
    BY <2>1, <2>2, <2>3
<1> QED
  BY <1>1 DEF CoverAgrees

LEMMA NextImages ==
  ASSUME Typed, RowFacts, CopyFacts, ImageFacts, CoverAgrees, [Next]_vars
  PROVE  ImageFacts' /\ CoverAgrees'
<1>0. /\ property \in PropertyRow
      /\ image \in [Images -> ImageRow]
      /\ RequestsTyped
      /\ \A a \in Admins : ImageFact(a)
      /\ \A a \in Admins : /\ req[a].row \in PropertyRow
                           /\ req[a].image \in MaybeImage
                           /\ req[a].removed \in MaybeImage
  BY TypeParts DEF RowsOK, ImageFacts, RequestsTyped, RequestState
<1>a. ASSUME NEW a \in Admins, Answer(a), image' = image PROVE ImageFacts'
  <2>1. ImageFact(a)' /\ ~Saving(a)'
    BY <1>0, <1>a, Answered DEF ImageFact, Saving, IdleRequest
  <2> QED
    BY <1>0, <1>a, <2>1, Answered, ImagesKept
<1>e. overtaken' = 0 => overtaken = 0 /\ overtaken' = overtaken
  BY Counted
<1>b. ASSUME UNCHANGED image,
             overtaken' = overtaken => property'.cover = property.cover
      PROVE  CoverAgrees'
  BY <1>b, <1>e DEF CoverAgrees
<1>c. NoImage \in MaybeImage /\ NoProperty \in PropertyRow
  BY RowsTyped DEF MaybeImage
<1>d. ASSUME NEW a \in Admins, NEW pc \in RequestPCs, NEW row \in PropertyRow,
             NEW i \in MaybeImage, Enter(a, pc, row, i, NoImage),
             pc # "saving", image' = image
      PROVE  ImageFacts'
  <2>1. /\ req'[a] = [pc |-> pc, row |-> row, image |-> i, removed |-> NoImage]
        /\ \A b \in Admins \ {a} : req'[b] = req[b]
    BY <1>0, <1>c, <1>d, Moved
  <2>2. ImageFact(a)' /\ ~Saving(a)'
    BY <1>d, <2>1 DEF ImageFact, Saving
  <2> QED
    BY <1>d, <2>1, <2>2, ImagesKept
<1>1. ASSUME NEW a \in Admins, NEW n \in Units, CreateProperty(a, n)
      PROVE  ImageFacts' /\ CoverAgrees'
  <2>1. property'.cover = property.cover /\ UNCHANGED <<image, req, overtaken>>
    BY <1>1 DEF CreateProperty, RowFacts, NoProperty
  <2>2. ImageFacts'
    BY <2>1 DEF ImageFacts, ImageFact, Saving, Live
  <2> QED
    BY <2>1, <2>2, <1>b
<1>2. ASSUME NEW a \in Admins, NEW n \in Units, UpdateRead(a, n)
      PROVE  ImageFacts' /\ CoverAgrees'
  <2>1. [property EXCEPT !.units = n] \in PropertyRow /\ "editing" \in RequestPCs
    BY <1>0, RowsTyped DEF RequestPCs
  <2>2. ImageFacts'
    BY <1>2, <1>c, <1>d, <2>1 DEF UpdateRead
  <2> QED
    BY <1>2, <1>b, <2>2 DEF UpdateRead
<1>3. ASSUME NEW a \in Admins, UpdateSave(a) \/ DeleteRow(a) \/ PublishCommit(a)
      PROVE  ImageFacts' /\ CoverAgrees'
  <2>1. overtaken' = overtaken => property'.cover = property.cover
    BY <1>0, <1>3, AsRead DEF DeleteRow, PublishCommit, PropertyRow
  <2> QED
    BY <1>3, <1>a, <1>b, <2>1 DEF UpdateSave, DeleteRow, PublishCommit
<1>4. ASSUME NEW a \in Admins, DeleteRead(a) \/ PublishRead(a) \/ UploadRead(a)
      PROVE  ImageFacts' /\ CoverAgrees'
  <2>1. {"deleting", "publishing", "uploading"} \subseteq RequestPCs
    BY DEF RequestPCs
  <2> QED
    BY <1>0, <1>4, <1>b, <1>c, <1>d, <2>1 DEF DeleteRead, PublishRead, UploadRead
<1>5. ASSUME NEW a \in Admins, UploadCheck(a) PROVE ImageFacts' /\ CoverAgrees'
  <2>1. {"addCover", "addPlain"} \subseteq RequestPCs
    BY DEF RequestPCs
  <2> QED
    BY <1>0, <1>5, <1>b, <1>c, <1>d, <2>1 DEF UploadCheck
<1>6. ASSUME NEW a \in Admins, NEW i \in Images, AddPlain(a, i)
      PROVE  ImageFacts' /\ CoverAgrees'
  <2>1. /\ image[i].status = "none"
        /\ image'[i] = [image[i] EXCEPT !.status = "live"]
        /\ \A j \in Images \ {i} : image'[j] = image[j]
        /\ property' = property
    BY <1>0, <1>6 DEF AddPlain
  <2>2. \A j \in Images : image'[j].is_cover = image[j].is_cover
    BY <1>0, <2>1 DEF ImageRow
  <2>3. /\ req'[a] = IdleRequest
        /\ \A b \in Admins \ {a} : req'[b] = req[b]
    BY <1>0, <1>6, Answered DEF AddPlain
  <2>4. ASSUME NEW b \in Admins PROVE ImageFact(b)'
    <3>1. CASE b = a
      BY <2>3, <3>1 DEF ImageFact, Saving, IdleRequest
    <3>2. CASE b # a
      <4>1. Saving(b) => req[b].image \in Live'
        BY <1>0, <2>1 DEF ImageFact, Live
      <4>2. \A c \in Admins : Saving(c)' => Saving(c)
        BY <2>3 DEF Saving, IdleRequest
      <4> QED
        BY <1>0, <2>2, <2>3, <3>2, <4>1, <4>2 DEF ImageFact, Saving
    <3> QED
      BY <3>1, <3>2
  <2>5. CoverAgrees'
    BY <1>0, <1>6, <2>1, <2>2 DEF CoverAgrees, AddPlain
  <2> QED
    BY <2>4, <2>5 DEF ImageFacts
<1>7. ASSUME NEW a \in Admins, NEW i \in Images, AddCover(a, i)
      PROVE  ImageFacts' /\ CoverAgrees'
  <2>1. /\ image' = Flagged(image, i)
        /\ property'.cover = i
        /\ IndexAdmits
    BY <1>0, <1>7 DEF AddCover, Save, PropertyRow
  <2>2. CoverAgrees'
    BY <1>0, <2>1, CoverSet DEF IndexAdmits
  <2> QED
    BY <1>0, <1>7, <2>2, ImagesWritten DEF AddCover
<1>8. ASSUME NEW a \in Admins, NEW i \in Images, PickRead(a, i)
      PROVE  ImageFacts' /\ CoverAgrees'
  <2>1. "picking" \in RequestPCs /\ i \in MaybeImage
    BY DEF RequestPCs, MaybeImage
  <2> QED
    BY <1>8, <1>b, <1>c, <1>d, <2>1 DEF PickRead
<1>9. ASSUME NEW a \in Admins, NEW i \in Images, RemoveRead(a, i)
      PROVE  ImageFacts' /\ CoverAgrees'
  <2>1. PICK pc \in {"removing", "removingCover"} : Enter(a, pc, NoProperty, i, NoImage)
    BY <1>9 DEF RemoveRead
  <2>2. pc \in RequestPCs /\ pc # "saving" /\ i \in MaybeImage
    BY DEF RequestPCs, MaybeImage
  <2>3. UNCHANGED <<image, property, overtaken>>
    BY <1>9 DEF RemoveRead
  <2> QED
    BY <1>b, <1>c, <1>d, <2>1, <2>2, <2>3
<1>10. ASSUME NEW a \in Admins, PickSet(a) \/ \E i \in Images : RemoveCover(a, i)
       PROVE  ImageFacts' /\ CoverAgrees'
  <2>1. PICK j \in Images, gone \in MaybeImage :
          /\ Enter(a, "saving", property, j, gone)
          /\ j \in Live
          /\ gone # j
          /\ gone \in Images => ~image[gone].is_cover
    BY <1>0, <1>10, <1>c, ImagesAssumption DEF PickSet, RemoveCover, Live
  <2>2. /\ req'[a] = [pc |-> "saving", row |-> property, image |-> j, removed |-> gone]
        /\ \A b \in Admins \ {a} : req'[b] = req[b]
    BY <1>0, <2>1, Moved DEF RequestPCs, MaybeImage
  <2>3. UNCHANGED <<image, property, overtaken>> /\ ImagesUnlocked(a)
    BY <1>10 DEF PickSet, RemoveCover
  <2>4. ImageFact(a)'
    BY <2>1, <2>2, <2>3 DEF ImageFact, Saving, Live, ImagesUnlocked
  <2>5. ImageFacts'
    BY <2>2, <2>3, <2>4, ImagesKept
  <2> QED
    BY <1>b, <2>3, <2>5
<1>11. ASSUME NEW a \in Admins, RemoveOther(a) PROVE ImageFacts' /\ CoverAgrees'
  <2> DEFINE i == req[a].image
  <2>1. /\ i \in Images
        /\ image' = [image EXCEPT ![i].status = "deleted"]
        /\ property' = property
    BY <1>11 DEF RemoveOther, Live
  <2>2. \A j \in Images : /\ image'[j].is_cover = image[j].is_cover
                          /\ j # i => image'[j] = image[j]
    BY <1>0, <2>1 DEF ImageRow
  <2>3. overtaken' = 0 => overtaken = 0 /\ ~image[i].is_cover
    BY <1>11, <1>e, AsRead
  <2>4. CoverAgrees'
    BY <2>1, <2>2, <2>3 DEF CoverAgrees
  <2> QED
    BY <1>0, <1>11, <2>4, ImagesWritten DEF RemoveOther
<1>12. ASSUME NEW a \in Admins, CoverCommit(a) PROVE ImageFacts' /\ CoverAgrees'
  <2> DEFINE rows == WithoutRemoved(a)
             i == req[a].image
  <2>1. /\ i \in Images
        /\ image' = Flagged(rows, i)
        /\ property'.cover = i
        /\ ImagesUnlocked(a)
        /\ req[a].removed \in Images => ~image[req[a].removed].is_cover
    BY <1>0, <1>12 DEF CoverCommit, Save, PropertyRow, ImageFact, Live, ImagesUnlocked
  <2>2. rows \in [Images -> ImageRow]
    BY WithoutRemovedTyped
  <2>3. \A j \in Images : /\ rows[j].is_cover = image[j].is_cover
                          /\ rows[j].is_cover => rows[j].status = image[j].status
    BY <1>0, <2>1 DEF WithoutRemoved, ImageRow
  <2>4. ASSUME overtaken' = 0 PROVE CoverAgrees'
    <3>1. \A j \in Images : rows[j].is_cover => rows[j].status = "live"
      BY <1>e, <2>3, <2>4 DEF CoverAgrees
    <3> QED
      BY <2>1, <2>2, <3>1, CoverSet
  <2>5. CoverAgrees'
    BY <2>4 DEF CoverAgrees
  <2> QED
    BY <1>0, <1>12, <2>1, <2>5, ImagesWritten DEF CoverCommit
<1>13. ASSUME NEW a \in Admins, RequestFails(a) PROVE ImageFacts' /\ CoverAgrees'
  BY <1>13, <1>a, <1>b DEF RequestFails
<1>14. ASSUME NEW n \in Units, IncrementFunding(n) PROVE ImageFacts' /\ CoverAgrees'
  <2>1. property'.cover = property.cover /\ UNCHANGED <<image, req, overtaken>>
    BY <1>0, <1>14 DEF IncrementFunding, PropertyRow
  <2>2. ImageFacts'
    BY <2>1 DEF ImageFacts, ImageFact, Saving, Live
  <2> QED
    BY <2>1, <2>2, <1>b
<1>15. CASE UNCHANGED vars
  BY <1>15 DEF vars, ImageFacts, ImageFact, CoverAgrees, Saving, Live
<1>16. ASSUME NEW a \in Admins, AdminStep(a) PROVE ImageFacts' /\ CoverAgrees'
  BY <1>16, <1>1, <1>2, <1>3, <1>4, <1>5, <1>6, <1>7, <1>8, <1>9, <1>10, <1>11, <1>12, <1>13
     DEF AdminStep
<1> QED
  BY <1>14, <1>15, <1>16 DEF Next

LEMMA ListingInvariant == Spec => []ListingInv
<1>1. Init => ListingInv
  <2> SUFFICES ASSUME Init PROVE RowFacts /\ CopyFacts /\ ImageFacts /\ CoverAgrees
    BY InitTyped DEF ListingInv
  <2>1. RowFacts
    BY DEF Init, RowFacts, NoProperty
  <2>2. CopyFacts /\ ImageFacts
    BY DEF Init, CopyFacts, CopyFact, ImageFacts, ImageFact, Saving, IdleRequest
  <2>3. CoverAgrees
    BY ImagesAssumption DEF Init, CoverAgrees, NoProperty, NoRow
  <2> QED
    BY <2>1, <2>2, <2>3
<1>2. ListingInv /\ [Next]_vars => ListingInv'
  BY NextTyped, NextRow, NextImages DEF ListingInv
<1> QED
  BY <1>1, <1>2, PTL DEF Spec

\* Until a request acts on what has changed since it read it, cover_image_url names
\* the one flagged image, and it is not a deleted one, although covers move and
\* images go between the steps of a removal.
THEOREM CoverAgreesCorrect == Spec => []CoverAgrees
<1>1. ListingInv => CoverAgrees
  BY DEF ListingInv
<1> QED
  BY <1>1, ListingInvariant, PTL

-----------------------------------------------------------------------------
(* The flags of the images *)

\* A transaction that is about to set a cover found no deleted image flagged.
FlagFacts == OneCover /\ \A a \in Admins : Saving(a) => IndexAdmits

\* Setting a cover when no deleted image is flagged leaves that flag alone.
LEMMA OneFlagged ==
  ASSUME NEW rows \in [Images -> ImageRow], NEW i \in Images, image' = Flagged(rows, i),
         \A j \in Images : rows[j].is_cover => rows[j].status = "live"
  PROVE  OneCover'
<1>1. ASSUME NEW j \in Images, j # i PROVE ~image'[j].is_cover
  <2>1. CASE rows[j].status = "live"
    BY <1>1, <2>1 DEF Flagged, ImageRow
  <2>2. CASE rows[j].status # "live"
    BY <1>1, <2>2 DEF Flagged, ImageRow
  <2> QED
    BY <2>1, <2>2
<1> QED
  BY <1>1 DEF OneCover

\* A step that sets no flag and deletes no image keeps the facts, if a transaction
\* that begins to save found no deleted image flagged.
LEMMA FlagsKept ==
  ASSUME FlagFacts,
         \A i \in Images : /\ image'[i].is_cover = image[i].is_cover
                           /\ image'[i].status = image[i].status \/ image'[i].status = "live",
         \A a \in Admins : Saving(a)' => Saving(a) \/ IndexAdmits
  PROVE  FlagFacts'
<1>1. OneCover'
  BY DEF FlagFacts, OneCover
<1>2. ASSUME NEW a \in Admins, Saving(a)' PROVE IndexAdmits'
  BY <1>2 DEF FlagFacts, IndexAdmits
<1> QED
  BY <1>1, <1>2 DEF FlagFacts

LEMMA NextFlags == ListingInv /\ FlagFacts /\ [Next]_vars => FlagFacts'
<1> SUFFICES ASSUME ListingInv, FlagFacts, [Next]_vars PROVE FlagFacts'
  OBVIOUS
<1>0. /\ image \in [Images -> ImageRow]
      /\ RequestsTyped
      /\ \A a \in Admins : ImageFact(a)
  BY TypeParts DEF ListingInv, RowsOK, ImageFacts
<1>a. ASSUME NEW a \in Admins, Answer(a)
      PROVE  ~Saving(a)' /\ \A b \in Admins \ {a} : Saving(b)' <=> Saving(b)
  BY <1>0, <1>a, Answered DEF Saving, IdleRequest
<1>b. ASSUME NEW a \in Admins, Answer(a), UNCHANGED image PROVE FlagFacts'
  BY <1>a, <1>b, FlagsKept
<1>c. ASSUME NEW a \in Admins, NEW pc, NEW row, NEW i, NEW gone, Enter(a, pc, row, i, gone),
             pc # "saving" \/ IndexAdmits, UNCHANGED image
      PROVE  FlagFacts'
  <2>1. \A b \in Admins : Saving(b)' => Saving(b) \/ IndexAdmits
    BY <1>0, <1>c DEF Enter, Saving, RequestsTyped
  <2> QED
    BY <1>c, <2>1, FlagsKept
<1>d. ASSUME NEW a \in Admins, Answer(a), ImagesUnlocked(a), OneCover' PROVE FlagFacts'
  BY <1>a, <1>d DEF FlagFacts, ImagesUnlocked
<1>1. ASSUME NEW a \in Admins, NEW n \in Units, CreateProperty(a, n) \/ UpdateRead(a, n)
      PROVE  FlagFacts'
  <2>1. CASE CreateProperty(a, n)
    BY <2>1, FlagsKept DEF CreateProperty, Saving
  <2>2. CASE UpdateRead(a, n)
    BY <1>c, <2>2 DEF UpdateRead
  <2> QED
    BY <1>1, <2>1, <2>2
<1>2. ASSUME NEW a \in Admins,
             UpdateSave(a) \/ DeleteRow(a) \/ PublishCommit(a) \/ RequestFails(a)
      PROVE  FlagFacts'
  BY <1>b, <1>2 DEF UpdateSave, DeleteRow, PublishCommit, RequestFails
<1>3. ASSUME NEW a \in Admins, DeleteRead(a) \/ PublishRead(a) \/ UploadRead(a) \/ UploadCheck(a)
      PROVE  FlagFacts'
  BY <1>c, <1>3 DEF DeleteRead, PublishRead, UploadRead, UploadCheck
<1>4. ASSUME NEW a \in Admins, NEW i \in Images,
             PickRead(a, i) \/ RemoveRead(a, i) \/ RemoveCover(a, i)
      PROVE  FlagFacts'
  <2>1. CASE PickRead(a, i)
    BY <1>c, <2>1 DEF PickRead
  <2>2. CASE RemoveRead(a, i)
    BY <1>c, <2>2 DEF RemoveRead
  <2>3. CASE RemoveCover(a, i)
    BY <1>c, <2>3 DEF RemoveCover
  <2> QED
    BY <1>4, <2>1, <2>2, <2>3
<1>10. ASSUME NEW a \in Admins, PickSet(a) PROVE FlagFacts'
  BY <1>c, <1>10 DEF PickSet
<1>5. ASSUME NEW a \in Admins, NEW i \in Images, AddPlain(a, i) PROVE FlagFacts'
  <2>1. \A j \in Images : /\ image'[j].is_cover = image[j].is_cover
                          /\ image'[j].status = image[j].status \/ image'[j].status = "live"
    BY <1>0, <1>5 DEF AddPlain, ImageRow
  <2>2. \A b \in Admins : Saving(b)' => Saving(b)
    BY <1>a, <1>5 DEF AddPlain
  <2> QED
    BY <2>1, <2>2, FlagsKept
<1>6. ASSUME NEW a \in Admins, NEW i \in Images, AddCover(a, i) PROVE FlagFacts'
  <2>1. OneCover'
    BY <1>0, <1>6, OneFlagged DEF AddCover, IndexAdmits
  <2> QED
    BY <1>d, <1>6, <2>1 DEF AddCover
<1>7. ASSUME NEW a \in Admins, RemoveOther(a) PROVE FlagFacts'
  <2>1. \A j \in Images : image'[j].is_cover = image[j].is_cover
    BY <1>0, <1>7 DEF RemoveOther, ImageRow
  <2>2. OneCover'
    BY <2>1 DEF FlagFacts, OneCover
  <2> QED
    BY <1>d, <1>7, <2>2 DEF RemoveOther
<1>8. ASSUME NEW a \in Admins, CoverCommit(a) PROVE FlagFacts'
  <2> DEFINE rows == WithoutRemoved(a)
             i == req[a].image
  <2>1. /\ i \in Images /\ rows \in [Images -> ImageRow]
        /\ image' = Flagged(rows, i)
        /\ ImagesUnlocked(a) /\ IndexAdmits
        /\ req[a].removed \in Images => ~image[req[a].removed].is_cover
    BY <1>0, <1>8, WithoutRemovedTyped
       DEF CoverCommit, ListingInv, ImageFact, Live, ImagesUnlocked, FlagFacts
  <2>2. \A j \in Images : /\ rows[j].is_cover = image[j].is_cover
                          /\ rows[j].is_cover => rows[j].status = image[j].status
    BY <1>0, <2>1 DEF WithoutRemoved, ImageRow
  <2>3. \A j \in Images : rows[j].is_cover => rows[j].status = "live"
    BY <2>1, <2>2 DEF IndexAdmits
  <2> HIDE DEF rows, i
  <2>4. OneCover'
    BY <2>1, <2>3, OneFlagged
  <2> QED
    BY <1>d, <1>8, <2>1, <2>4 DEF CoverCommit
<1>9. CASE (\E n \in Units : IncrementFunding(n)) \/ UNCHANGED vars
  <2>1. UNCHANGED <<image, req>>
    BY <1>9 DEF IncrementFunding, vars
  <2>2. \A a \in Admins : Saving(a)' <=> Saving(a)
    BY <2>1 DEF Saving
  <2>3. \A i \in Images : /\ image'[i].is_cover = image[i].is_cover
                          /\ image'[i].status = image[i].status \/ image'[i].status = "live"
    BY <2>1
  <2>4. \A a \in Admins : Saving(a)' => Saving(a) \/ IndexAdmits
    BY <2>2
  <2> QED
    BY <2>3, <2>4, FlagsKept
<1> QED
  BY <1>1, <1>2, <1>3, <1>4, <1>5, <1>6, <1>7, <1>8, <1>9, <1>10 DEF Next, AdminStep

\* The rows, and every request's copy of them, are well typed in every behaviour, and
\* one image at most has the flag of the cover, deleted ones included, however the
\* requests overlap.
THEOREM TypeCorrect == Spec => []TypeOK
<1>1. Init => FlagFacts
  BY DEF Init, FlagFacts, OneCover, NoRow, Saving, IdleRequest
<1>2. ListingInv /\ FlagFacts => TypeOK
  BY DEF ListingInv, FlagFacts, TypeOK
<1> QED
  BY <1>1, <1>2, NextFlags, ListingInvariant, PTL DEF Spec

-----------------------------------------------------------------------------
(* The contract *)

LEMMA NextContract ==
  ASSUME ListingInv, [Next]_vars, overtaken' = overtaken
  PROVE  [Contract!ContractNext]_(Contract!cvars)
<1> USE DEF Contract!cvars
<1>0. /\ property \in PropertyRow
      /\ Typed /\ CopyFacts
      /\ \A a \in Admins : CopyFact(a)
  BY DEF ListingInv, Typed, CopyFacts
<1>a. Found => Stage \in {"draft", "listed"} /\ property.units \in Units
  BY <1>0 DEF Found, Stage, PropertyRow, ListingInv, RowFacts
<1>1. ASSUME NEW a \in Admins, NEW n \in Units, CreateProperty(a, n) PROVE Contract!Draw(n)
  <2>1. property = NoProperty
    BY <1>1 DEF CreateProperty, ListingInv, RowFacts
  <2> QED
    BY <1>1, <2>1 DEF CreateProperty, Contract!Draw, Stage, NoProperty
<1>2. ASSUME NEW a \in Admins, UpdateSave(a)
      PROVE  Contract!ContractNext \/ UNCHANGED Contract!cvars
  <2> DEFINE n == req[a].row.units
  <2>1. /\ property' = [property EXCEPT !.units = n]
        /\ n = property.units \/ property.sold = 0
        /\ Found
    BY <1>0, <1>2, AsRead
  <2>2. n \in Units /\ UNCHANGED <<announced, held>>
    BY <1>0, <1>2 DEF UpdateSave, CopyFact
  <2>3. /\ property'.units = n
        /\ UNCHANGED <<Stage, property.cover, property.sold>>
    BY <1>0, <2>1 DEF PropertyRow, Stage
  <2>4. CASE property.sold = 0
    BY <1>a, <2>1, <2>2, <2>3, <2>4 DEF Contract!Revise, Contract!ContractNext
  <2>5. CASE n = property.units
    BY <2>2, <2>3, <2>5
  <2> QED
    BY <2>1, <2>4, <2>5
<1>3. ASSUME NEW a \in Admins, DeleteRow(a) PROVE Contract!Remove
  <2>1. /\ property' = [property EXCEPT !.deleted = TRUE]
        /\ property.sold = 0
        /\ UNCHANGED <<announced, held>>
        /\ Found
    BY <1>0, <1>3, AsRead DEF DeleteRow
  <2>2. /\ Stage' = "removed"
        /\ UNCHANGED <<property.cover, property.sold, property.units>>
    BY <1>0, <2>1 DEF Stage, PropertyRow
  <2> QED
    BY <1>a, <2>1, <2>2 DEF Contract!Remove
<1>4. ASSUME NEW a \in Admins, PublishCommit(a) PROVE Contract!Publish
  <2>1. /\ property' = [property EXCEPT !.status = "active"]
        /\ property.status = "draft" /\ ~property.deleted
        /\ property.cover # NoImage
        /\ announced' = announced + 1
        /\ UNCHANGED held
    BY <1>0, <1>4, AsRead DEF PublishCommit, Found
  <2>2. /\ Stage = "draft" /\ Stage' = "listed"
        /\ UNCHANGED <<property.cover, property.sold, property.units>>
    BY <1>0, <2>1 DEF Stage, PropertyRow
  <2> QED
    BY <2>1, <2>2 DEF Contract!Publish
<1>5. ASSUME NEW a \in Admins, NEW i \in Images, Found,
             property' = [property EXCEPT !.cover = i], UNCHANGED <<announced, held>>
      PROVE  Contract!GainCover
  <2>1. /\ property'.cover # NoImage
        /\ UNCHANGED <<Stage, property.sold, property.units>>
    BY <1>0, <1>5, ImagesAssumption DEF Stage, PropertyRow
  <2> QED
    BY <1>5, <1>a, <2>1 DEF Contract!GainCover
<1>6. ASSUME NEW a \in Admins, NEW i \in Images, AddCover(a, i) PROVE Contract!GainCover
  <2>1. Found /\ property' = [property EXCEPT !.cover = i]
    BY <1>0, <1>6, AsRead
  <2> QED
    BY <1>5, <1>6, <2>1 DEF AddCover
<1>7. ASSUME NEW a \in Admins, CoverCommit(a) PROVE Contract!GainCover
  <2>1. Found /\ property' = [property EXCEPT !.cover = req[a].image]
    BY <1>0, <1>7, AsRead
  <2>2. req[a].image \in Images
    BY <1>0, <1>7 DEF CoverCommit, Saving, Typed
  <2> QED
    BY <1>5, <1>7, <2>1, <2>2 DEF CoverCommit
<1>8. ASSUME NEW n \in Units, IncrementFunding(n) PROVE Contract!Sell(n)
  <2>1. /\ property' = [property EXCEPT !.sold = property.sold + n]
        /\ held' = held + n
        /\ n <= property.units - property.sold
        /\ property.status = "active" /\ ~property.deleted
        /\ UNCHANGED announced
    BY <1>8 DEF IncrementFunding, Found
  <2>2. Units \cup {0} \subseteq Nat /\ property.units \in Units \cup {0} /\ property.sold \in Nat
    BY <1>0, UnitsAssumption DEF PropertyRow
  <2>3. property.sold + n <= property.units
    BY <2>1, <2>2
  <2>4. /\ Stage = "listed" /\ property'.sold = property.sold + n
        /\ UNCHANGED <<Stage, property.cover, property.units>>
    BY <1>0, <2>1 DEF Stage, PropertyRow
  <2> QED
    BY <2>1, <2>3, <2>4 DEF Contract!Sell
<1>9. ASSUME UNCHANGED <<property, announced, held>> PROVE UNCHANGED Contract!cvars
  BY <1>9 DEF Stage
<1>10. ASSUME NEW a \in Admins, AdminStep(a)
       PROVE  [Contract!ContractNext]_(Contract!cvars)
  <2>1. ASSUME NEW n \in Units, UpdateRead(a, n) PROVE UNCHANGED <<property, announced, held>>
    BY <2>1 DEF UpdateRead
  <2>2. ASSUME DeleteRead(a) \/ PublishRead(a) \/ UploadRead(a) \/ UploadCheck(a) \/ PickSet(a)
                 \/ RemoveOther(a) \/ RequestFails(a)
        PROVE  UNCHANGED <<property, announced, held>>
    BY <2>2 DEF DeleteRead, PublishRead, UploadRead, UploadCheck, PickSet, RemoveOther,
                RequestFails
  <2>3. ASSUME NEW i \in Images,
               AddPlain(a, i) \/ PickRead(a, i) \/ RemoveRead(a, i) \/ RemoveCover(a, i)
        PROVE  UNCHANGED <<property, announced, held>>
    BY <2>3 DEF AddPlain, PickRead, RemoveRead, RemoveCover
  <2> QED
    BY <1>1, <1>2, <1>3, <1>4, <1>6, <1>7, <1>9, <1>10, <2>1, <2>2, <2>3
       DEF AdminStep, Contract!ContractNext
<1> QED
  BY <1>8, <1>9, <1>10 DEF Next, vars, Contract!ContractNext

\* Whatever a request does that is still as the request read it keeps the promises
\* of ListingContract, also after another has broken them by an act on something that
\* had changed.  The README (section 4, 6) says what such an act can do.
THEOREM ContractImplemented == Spec => ContractSpec
<1>1. Init => Contract!ContractInit
  BY DEF Init, Contract!ContractInit, Stage, NoProperty
<1>2. ListingInv /\ [Next]_vars
        => [overtaken' # overtaken \/ Contract!ContractNext]_(Contract!cvars)
  BY NextContract
<1> QED
  BY <1>1, <1>2, ListingInvariant, PTL DEF Spec, ContractSpec
=============================================================================
