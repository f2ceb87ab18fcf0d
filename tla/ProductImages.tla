---------------------------- MODULE ProductImages ----------------------------
(***************************************************************************)
(* Pictures of the products.  An admin asks for a signature, the browser   *)
(* uploads to Cloudinary with it, and the response, which Cloudinary has   *)
(* signed, is posted to attach the picture to its product.  One picture of *)
(* a product is the primary one.  A deletion removes the row and then asks *)
(* Cloudinary to destroy the asset, without insisting.                     *)
(*                                                                         *)
(* Signatures are taken to verify what they sign: a response is one that   *)
(* Cloudinary gave for an upload.  A response may be posted again.         *)
(***************************************************************************)
EXTENDS Integers, FiniteSets, FiniteSetsExt

CONSTANTS
  Owners,     \* products.id
  Pictures,   \* Cloudinary public ids
  ImageIds,   \* product_images.id
  MaxPlace,   \* bound on position
  Absent      \* NULL

ASSUME ImagesAssumption == Absent \notin Owners \cup Pictures /\ MaxPlace \in Nat /\ IsFiniteSet(ImageIds)

VARIABLES
  upload,   \* the folder of each uploaded asset
  stored,   \* the assets Cloudinary still has
  image     \* rows of product_images

imageVars == <<upload, stored, image>>

Contexts == {"product", "category", "banner", "reel", "influencer", "whatsapp_catalog"}

\* CONTEXT_CONFIGS: reels, influencer and catalogue pictures may be shared.
RequiresEntity(context) == context \in {"product", "category", "banner"}

\* The folder a signature is good for.
Folder(context, entity) == [context |-> context, entity |-> entity]

Folders == [context : Contexts, entity : Owners \cup {"shared"}]

ImageRow ==
  [product : Owners \cup {Absent}, asset : Pictures \cup {Absent}, position : 0..MaxPlace,
   is_primary : BOOLEAN]

NoImage == [product |-> Absent, asset |-> Absent, position |-> 0, is_primary |-> FALSE]

NoFolder == [context |-> "none"]

ImagesInit ==
  /\ upload = [a \in Pictures |-> NoFolder]
  /\ stored = {}
  /\ image = [i \in ImageIds |-> NoImage]

Shown(p) == {i \in ImageIds : image[i].product = p}

Primary(p) == {i \in Shown(p) : image[i].is_primary}

-----------------------------------------------------------------------------
(* Signing and uploading *)

\* create_upload_signature: a product's folder is signed for a product only.
Signs(context, entity) == RequiresEntity(context) => entity # "shared"

\* The browser uploads into the signed folder; Cloudinary names the asset.
Upload(a, context, entity) ==
  /\ Signs(context, entity) /\ upload[a] = NoFolder
  /\ upload' = [upload EXCEPT ![a] = Folder(context, entity)]
  /\ stored' = stored \cup {a}
  /\ UNCHANGED image

-----------------------------------------------------------------------------
(* Attaching *)

\* _next_position
NextPlace(p, override) ==
  IF override # -1 THEN override ELSE 1 + Max({image[i].position : i \in Shown(p)} \cup {-1})

\* _verify_payload: the response is for an upload to this product's folder.
BelongsToProduct(a, p) == upload[a] = Folder("product", p)

\* Mutant: a picture that asks to be primary leaves the others as they are.
KeptFlags(p, primary) == image

\* The other pictures once one that may ask to be primary comes in.
Demoted(p, primary) ==
  [i \in ImageIds |-> IF primary /\ image[i].product = p
                        THEN [image[i] EXCEPT !.is_primary = FALSE] ELSE image[i]]

Attach(i, p, a, override, primary) ==
  /\ image[i] = NoImage
  /\ BelongsToProduct(a, p)
  /\ NextPlace(p, override) <= MaxPlace
  /\ image' = [Demoted(p, primary) EXCEPT ![i] =
       [product |-> p, asset |-> a, position |-> NextPlace(p, override),
        is_primary |-> primary \/ Primary(p) = {}]]
  /\ UNCHANGED <<upload, stored>>

-----------------------------------------------------------------------------
(* Deleting *)

\* The survivors of lowest position: one of them is promoted.
NextInLine(p, i) ==
  {j \in Shown(p) \ {i} : \A k \in Shown(p) \ {i} : image[j].position <= image[k].position}

\* destroy: Cloudinary removes the asset, or the call fails and it stays.
Destroyed(a) == {stored, stored \ {a}}

DeleteImage(i) ==
  LET p == image[i].product IN
  /\ image[i] # NoImage
  /\ IF image[i].is_primary /\ NextInLine(p, i) # {}
       THEN \E j \in NextInLine(p, i) :
              image' = [image EXCEPT ![i] = NoImage, ![j].is_primary = TRUE]
       ELSE image' = [image EXCEPT ![i] = NoImage]
  /\ stored' \in Destroyed(image[i].asset)
  /\ UNCHANGED upload

ImagesNext ==
  \/ \E a \in Pictures, context \in Contexts, entity \in Owners \cup {"shared"} :
       Upload(a, context, entity)
  \/ \E i \in ImageIds, p \in Owners, a \in Pictures, override \in {-1, 0}, primary \in BOOLEAN :
       Attach(i, p, a, override, primary)
  \/ \E i \in ImageIds : DeleteImage(i)

ImagesSpec == ImagesInit /\ [][ImagesNext]_imageVars

-----------------------------------------------------------------------------
(* What must hold *)

ImagesTypeOK ==
  /\ upload \in [Pictures -> Folders \cup {NoFolder}]
  /\ stored \subseteq Pictures
  /\ image \in [ImageIds -> ImageRow]

\* A product with pictures has exactly one primary picture, in whatever order
\* they are attached, made primary and deleted: the card and the page show it.
OnePrimaryPicture == \A p \in Owners : Shown(p) # {} => Cardinality(Primary(p)) = 1
=============================================================================
