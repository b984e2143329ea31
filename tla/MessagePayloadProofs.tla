------------------------- MODULE MessagePayloadProofs -------------------------
(***************************************************************************)
(* The rules for what may be sent, for any limits, contents and files.     *)
(***************************************************************************)
EXTENDS MessagePayload, TLAPS

Media == MessageType \ {"text", "file"}

(* the extensions of a type *)
Extensions(type) ==
    CASE type = "image" -> DOMAIN IMAGE_MIME_MAP
      [] type = "music" -> DOMAIN AUDIO_MIME_MAP
      [] type = "video" -> DOMAIN VIDEO_MIME_MAP
      [] type = "document" -> ALLOWED_DOCUMENT_EXTENSIONS

(* Every stored payload passed the rules of its type. *)
StoredIsValid ==
    step = "stored" => ValidPayload(payload) /\ message = Stored(payload)

(* What was rejected had failed the serializer or the service. *)
RejectedIsInvalid ==
    step = "rejected" => ~SerializerAccepts(payload) \/ ~ValidPayload(payload)

Inv == (step # "new" => payload \in Payloads) /\ StoredIsValid /\ RejectedIsInvalid

-----------------------------------------------------------------------------
(* Each table names extensions the others do not. *)
LEMMA TablesAreDisjoint ==
  ASSUME NEW j \in Media, NEW k \in Media, j # k
  PROVE  Extensions(j) \intersect Extensions(k) = {}
  <1>1. /\ DOMAIN IMAGE_MIME_MAP = {".jpg", ".jpeg", ".png", ".gif", ".webp", ".bmp"}
        /\ DOMAIN AUDIO_MIME_MAP = {".mp3", ".wav", ".aac", ".ogg", ".m4a", ".flac"}
        /\ DOMAIN VIDEO_MIME_MAP = {".mp4", ".avi", ".mov", ".mkv", ".webm", ".flv"}
    BY DEF IMAGE_MIME_MAP, AUDIO_MIME_MAP, VIDEO_MIME_MAP
  <1>2. j \in {"image", "music", "video", "document"} /\ k \in {"image", "music", "video", "document"}
    BY DEF Media, MessageType
  <1> QED
    BY <1>1, <1>2 DEF Extensions, ALLOWED_DOCUMENT_EXTENSIONS

(* A file valid as one of the media has one of its extensions. *)
LEMMA MediaHasExtension ==
  ASSUME NEW a, NEW k \in Media, ValidAttachment(a, k)
  PROVE  a.ext \in Extensions(k)
  <1>1. k \in {"image", "music", "video", "document"}
    BY DEF Media, MessageType
  <1> QED
    BY <1>1 DEF ValidAttachment, Matches, MatchesVideo, Extensions

(* and may therefore be sent under the general kind as well. *)
LEMMA MediaIsFile ==
  ASSUME NEW a, NEW k \in Media \union {"file"}, ValidAttachment(a, k)
  PROVE  ValidAttachment(a, "file")
  <1>1. k \in {"image", "music", "video", "document", "file"}
    BY DEF Media, MessageType
  <1> QED
    BY <1>1 DEF ValidAttachment, Matches, MatchesVideo, ALLOWED_FILE_EXTENSIONS

(* No file is valid as two of the media. *)
LEMMA OneMedium ==
  ASSUME NEW a, NEW j \in Media, NEW k \in Media,
         ValidAttachment(a, j), ValidAttachment(a, k)
  PROVE  j = k
  BY MediaHasExtension, TablesAreDisjoint

(* A file of any kind is not empty, has an extension and fits. *)
LEMMA FileFits ==
  ASSUME NEW a \in Attachments \union {NoFile}, ValidAttachment(a, "file")
  PROVE  a.size \in 1 .. MAX_ATTACHMENT_SIZE_BYTES /\ a.ext # ""
  <1>1. a \in Attachments /\ a.size > 0 /\ a.size <= MAX_ATTACHMENT_SIZE_BYTES
    BY DEF ValidAttachment, DetectableMime
  <1>2. a.ext \in ALLOWED_FILE_EXTENSIONS
    BY DEF ValidAttachment
  <1>3. "" \notin ALLOWED_FILE_EXTENSIONS
    BY DEF ALLOWED_FILE_EXTENSIONS, ALLOWED_DOCUMENT_EXTENSIONS, IMAGE_MIME_MAP,
           AUDIO_MIME_MAP, VIDEO_MIME_MAP
  <1>4. a.size \in Nat /\ MAX_ATTACHMENT_SIZE_BYTES \in Nat
    BY <1>1, SizesAssumption, LimitsAssumption
  <1>5. a.size \in 1 .. MAX_ATTACHMENT_SIZE_BYTES
    BY <1>1, <1>4
  <1> QED
    BY <1>2, <1>3, <1>5

(* Whatever the service would store passes the serializer. *)
LEMMA SerializerIsNoStricter ==
  ASSUME NEW p \in Payloads, ValidPayload(p)
  PROVE  SerializerAccepts(p)
  <1> USE LimitsAssumption DEF ValidPayload, SerializerAccepts, Stripped, Measured
  <1>1. CASE p.type = "text"
    BY <1>1
  <1>2. CASE p.type # "text"
    <2>1. p.content.text = 0 /\ ValidAttachment(p.attachment, p.type)
      BY <1>2
    <2>2. p.attachment # NoFile /\ p.attachment.size > 0
      BY <2>1 DEF ValidAttachment, DetectableMime
    <2> QED
      BY <1>2, <2>1, <2>2
  <1> QED
    BY <1>1, <1>2

-----------------------------------------------------------------------------
LEMMA InitInv == PayloadInit => Inv
  BY DEF PayloadInit, Inv, StoredIsValid, RejectedIsInvalid

LEMMA NextInv == Inv /\ [PayloadNext]_payloadVars => Inv'
  <1> SUFFICES ASSUME Inv, [PayloadNext]_payloadVars PROVE Inv'
    OBVIOUS
  <1> USE DEF Inv, StoredIsValid, RejectedIsInvalid
  <1>1. CASE Post
    BY <1>1, PostsAssumption DEF Post
  <1>2. CASE Serialize
    BY <1>2 DEF Serialize
  <1>3. CASE SendMessage
    BY <1>3 DEF SendMessage
  <1>4. CASE UNCHANGED payloadVars
    BY <1>4 DEF payloadVars
  <1> QED
    BY <1>1, <1>2, <1>3, <1>4 DEF PayloadNext

(* The serializer of the API rejects nothing that the service would have   *)
(* stored, whatever the limits are and whatever whitespace surrounds a     *)
(* text.                                                                   *)
THEOREM TransportsShareRules == PayloadSpec => []TransportsAgree
  <1>1. Inv => TransportsAgree
    BY SerializerIsNoStricter DEF Inv, RejectedIsInvalid, TransportsAgree
  <1> QED
    BY <1>1, InitInv, NextInv, PTL DEF PayloadSpec

LEMMA StoredIsOneKind == Inv => MessageIsOneKind
  <1> SUFFICES ASSUME Inv, step = "stored"
               PROVE  /\ message.length \in 0 .. MAX_MESSAGE_LENGTH
                      /\ message.file_size \in 0 .. MAX_ATTACHMENT_SIZE_BYTES
                      /\ IF message.type = "text"
                           THEN message.file = "" /\ message.length > 0
                           ELSE /\ message.file # "" /\ message.file_size > 0
                                /\ message.length = 0
                                /\ ValidAttachment(payload.attachment, "file")
                                /\ \A k \in MessageType \ {"text", "file"} :
                                     ValidAttachment(payload.attachment, k)
                                       => message.type \in {k, "file"}
    BY DEF MessageIsOneKind
  <1>a. PICK a : a = payload.attachment
    OBVIOUS
  <1>l. MAX_MESSAGE_LENGTH \in Nat /\ MAX_ATTACHMENT_SIZE_BYTES \in Nat
    BY LimitsAssumption
  <1>1. payload \in Payloads /\ ValidPayload(payload) /\ message = Stored(payload)
    BY DEF Inv, StoredIsValid
  <1>2. /\ message.type = payload.type /\ message.file = a.ext /\ message.file_size = a.size
        /\ message.length = IF payload.type = "text" THEN payload.content.text ELSE 0
    BY <1>a, <1>1 DEF Stored, Stripped
  <1>3. CASE payload.type = "text"
    <2>1. a = NoFile /\ payload.content.text \in 1 .. MAX_MESSAGE_LENGTH
      BY <1>a, <1>1, <1>3 DEF ValidPayload, Stripped
    <2>2. a.ext = "" /\ a.size = 0
      BY <2>1 DEF NoFile
    <2>3. message.length \in 1 .. MAX_MESSAGE_LENGTH
      BY <1>2, <1>3, <2>1
    <2>4. message.length \in 0 .. MAX_MESSAGE_LENGTH /\ message.length > 0
      BY <1>l, <2>3
    <2>5. message.file_size = 0
      BY <1>2, <2>2
    <2>6. message.file_size \in 0 .. MAX_ATTACHMENT_SIZE_BYTES
      BY <1>l, <2>5
    <2> QED
      BY <1>2, <1>3, <2>2, <2>4, <2>6
  <1>4. CASE payload.type # "text"
    <2>1. payload.type \in Media \union {"file"} /\ ValidAttachment(a, payload.type)
      BY <1>a, <1>1, <1>4 DEF ValidPayload, Media
    <2>2. ValidAttachment(a, "file")
      BY <2>1, MediaIsFile
    <2>3. a.size \in 1 .. MAX_ATTACHMENT_SIZE_BYTES /\ a.ext # ""
      BY <1>a, <1>1, <2>2, FileFits DEF Payloads
    <2>4. ASSUME NEW k \in Media, ValidAttachment(a, k)
          PROVE  payload.type \in {k, "file"}
      BY <2>1, <2>4, OneMedium
    <2>5. message.length = 0 /\ message.length \in 0 .. MAX_MESSAGE_LENGTH
      BY <1>2, <1>4, <1>l
    <2>6. message.file_size \in 1 .. MAX_ATTACHMENT_SIZE_BYTES
      BY <1>2, <2>3
    <2>7. message.file_size \in 0 .. MAX_ATTACHMENT_SIZE_BYTES /\ message.file_size > 0
      BY <1>l, <2>6
    <2> QED
      BY <1>a, <1>2, <1>4, <2>2, <2>3, <2>4, <2>5, <2>7 DEF Media
  <1> QED
    BY <1>3, <1>4

(* A stored message is a text without a file or a file without a text,     *)
(* within the limits, and a file of no other kind than its own or the      *)
(* general one.                                                            *)
THEOREM StoredKinds == PayloadSpec => []MessageIsOneKind
  <1> QED
    BY StoredIsOneKind, InitInv, NextInv, PTL DEF PayloadSpec
===============================================================================
