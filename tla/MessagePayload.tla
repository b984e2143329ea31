---------------------------- MODULE MessagePayload ----------------------------
(***************************************************************************)
(* What may be sent: validate_message_payload, which send_message runs for *)
(* every transport, and SendMessageSerializer, which the API runs first    *)
(* and which repeats some of its rules.                                    *)
(*                                                                         *)
(* A content is the number of characters between its first and its last    *)
(* that is not whitespace, and the number of those around them.  An        *)
(* attachment is what the validators read of it: its extension, its size,  *)
(* the MIME type libmagic finds in its first bytes, and what Pillow makes  *)
(* of it.                                                                  *)
(***************************************************************************)
EXTENDS Integers

CONSTANTS
    MAX_MESSAGE_LENGTH,
    MAX_ATTACHMENT_SIZE_BYTES,
    MAX_IMAGE_DIMENSION,
    Contents,       \* the contents tried, [text, around]
    Attachments,    \* the attachments tried, [ext, size, mime, image]
    Posts,          \* the combinations of the two tried, with a type
    UNREADABLE      \* what libmagic raises on

ASSUME LimitsAssumption ==
    {MAX_MESSAGE_LENGTH, MAX_ATTACHMENT_SIZE_BYTES, MAX_IMAGE_DIMENSION} \subseteq Nat
ASSUME SizesAssumption == \A a \in Attachments : a.size \in Nat

NoFile == [ext |-> "", size |-> 0, mime |-> "", image |-> 0]

VARIABLES
    via,        \* "web" for send_message_view, "api" for MessageListCreateApi
    payload,    \* [type, content, attachment] as it was posted
    step,       \* "new", "serializer", "service", "stored" or "rejected"
    message     \* the fields of the message made

payloadVars == <<via, payload, step, message>>
------------------------------------------------------------------------------
MessageType == {"text", "file", "image", "music", "video", "document"}

IMAGE_MIME_MAP ==
    [e \in {".jpg", ".jpeg", ".png", ".gif", ".webp", ".bmp"} |->
        CASE e \in {".jpg", ".jpeg"} -> {"image/jpeg"}
          [] e = ".png" -> {"image/png"}
          [] e = ".gif" -> {"image/gif"}
          [] e = ".webp" -> {"image/webp"}
          [] e = ".bmp" -> {"image/bmp", "image/x-ms-bmp"}]

AUDIO_MIME_MAP ==
    [e \in {".mp3", ".wav", ".aac", ".ogg", ".m4a", ".flac"} |->
        CASE e = ".mp3" -> {"audio/mpeg", "audio/mp3"}
          [] e = ".wav" -> {"audio/wav", "audio/x-wav"}
          [] e = ".aac" -> {"audio/aac", "audio/x-hx-aac-adts"}
          [] e = ".ogg" -> {"audio/ogg", "application/ogg"}
          [] e = ".m4a" -> {"audio/mp4"}
          [] e = ".flac" -> {"audio/flac", "audio/x-flac"}]

VIDEO_MIME_MAP ==
    [e \in {".mp4", ".avi", ".mov", ".mkv", ".webm", ".flv"} |->
        CASE e = ".mp4" -> {"video/mp4"}
          [] e = ".avi" -> {"video/x-msvideo"}
          [] e = ".mov" -> {"video/quicktime"}
          [] e = ".mkv" -> {"video/x-matroska"}
          [] e = ".webm" -> {"video/webm"}
          [] e = ".flv" -> {"video/x-flv"}]

ALLOWED_DOCUMENT_EXTENSIONS ==
    {".pdf", ".doc", ".docx", ".xls", ".xlsx", ".ppt", ".pptx", ".txt", ".rtf",
     ".csv", ".zip", ".rar", ".7z"}

(* The three Open XML types are named by what follows the common prefix.   *)
ALLOWED_DOCUMENT_MIMES ==
    {"application/pdf", "application/msword", "wordprocessingml.document",
     "application/vnd.ms-excel", "spreadsheetml.sheet",
     "application/vnd.ms-powerpoint", "presentationml.presentation",
     "text/plain", "text/rtf", "text/csv", "application/zip",
     "application/x-rar", "application/x-rar-compressed",
     "application/x-7z-compressed"}

ALLOWED_FILE_EXTENSIONS ==
    DOMAIN IMAGE_MIME_MAP \union DOMAIN AUDIO_MIME_MAP
    \union DOMAIN VIDEO_MIME_MAP \union ALLOWED_DOCUMENT_EXTENSIONS
------------------------------------------------------------------------------
(* validate_attachment *)

(* validate_extension and the validate_*_mime of the type *)
Matches(a, table) == a.ext \in DOMAIN table /\ a.mime \in table[a.ext]

(* mutant: an audio file in a container of video passes by its MIME type *)
MatchesVideo_AnyContainer(a) ==
    a.ext \in DOMAIN VIDEO_MIME_MAP \union DOMAIN AUDIO_MIME_MAP

MatchesVideo(a) == Matches(a, VIDEO_MIME_MAP)

(* validate_image_file: image is the larger dimension, 0 if Pillow raises  *)
ValidImageFile(a) == a.image > 0 /\ a.image <= MAX_IMAGE_DIMENSION

DetectableMime(a) == a.size > 0 /\ a.mime # UNREADABLE

ValidAttachment(a, type) ==
    /\ a # NoFile
    /\ a.size <= MAX_ATTACHMENT_SIZE_BYTES
    /\ DetectableMime(a)
    /\ \/ type = "image" /\ Matches(a, IMAGE_MIME_MAP) /\ ValidImageFile(a)
       \/ type = "music" /\ Matches(a, AUDIO_MIME_MAP)
       \/ type = "video" /\ MatchesVideo(a)
       \/ type = "document" /\ a.ext \in ALLOWED_DOCUMENT_EXTENSIONS
                            /\ a.mime \in ALLOWED_DOCUMENT_MIMES
       \/ type = "file" /\ a.ext \in ALLOWED_FILE_EXTENSIONS
------------------------------------------------------------------------------
(* validate_message_payload *)

(* the length of the content after strip(); whitespace alone has no text *)
Stripped(c) == c.text

(* and before it *)
Raw(c) == c.text + c.around

ValidPayload(p) ==
    /\ p.type \in MessageType
    /\ IF p.type = "text"
         THEN p.attachment = NoFile /\ Stripped(p.content) \in 1 .. MAX_MESSAGE_LENGTH
         ELSE Stripped(p.content) = 0 /\ ValidAttachment(p.attachment, p.type)

(* what send_message stores: the content returned and get_file_info's *)
Stored(p) ==
    [type |-> p.type,
     length |-> IF p.type = "text" THEN Stripped(p.content) ELSE 0,
     file |-> p.attachment.ext,
     file_size |-> p.attachment.size,
     mime_type |-> p.attachment.mime]

(* mutant: trim_whitespace is turned off *)
Measured_Untrimmed(c) == Raw(c)

(* CharField trims before max_length is applied *)
Measured(c) == Stripped(c)

(* SendMessageSerializer: its fields (FileField refuses an empty file) and *)
(* validate()                                                              *)
SerializerAccepts(p) ==
    /\ p.type \in MessageType
    /\ Measured(p.content) <= MAX_MESSAGE_LENGTH
    /\ p.attachment # NoFile => p.attachment.size > 0
    /\ p.type = "text" => p.attachment = NoFile
    /\ p.type # "text" => p.attachment # NoFile /\ Stripped(p.content) = 0
------------------------------------------------------------------------------
Payloads == [type : MessageType \union {"sticker"}, content : Contents,
             attachment : Attachments \union {NoFile}]

ASSUME PostsAssumption == Posts \subseteq Payloads

Nothing == [type |-> "text", content |-> [text |-> 0, around |-> 0], attachment |-> NoFile]

PayloadInit ==
    /\ via = "web"
    /\ payload = Nothing
    /\ step = "new"
    /\ message = Stored(Nothing)

Post ==
    /\ step = "new"
    /\ via' \in {"web", "api"}
    /\ payload' \in Posts
    /\ step' = IF via' = "api" THEN "serializer" ELSE "service"
    /\ UNCHANGED message

Serialize ==
    /\ step = "serializer"
    /\ step' = IF SerializerAccepts(payload) THEN "service" ELSE "rejected"
    /\ UNCHANGED <<via, payload, message>>

SendMessage ==
    /\ step = "service"
    /\ IF ValidPayload(payload)
         THEN step' = "stored" /\ message' = Stored(payload)
         ELSE step' = "rejected" /\ UNCHANGED message
    /\ UNCHANGED <<via, payload>>

PayloadNext == Post \/ Serialize \/ SendMessage

PayloadSpec == PayloadInit /\ [][PayloadNext]_payloadVars
------------------------------------------------------------------------------
(* "every transport (web view, DRF API, any future caller) shares the      *)
(* exact same limit": the rules the serializer repeats reject nothing that *)
(* the service would have stored, at the limits and with whitespace around *)
(* the text in particular.                                                 *)
TransportsAgree ==
    step = "rejected" => ~ValidPayload(payload)

(* A stored message is of exactly one kind, within the limits: a text      *)
(* without a file or a file without a text, and a file that could not have *)
(* been sent under another kind than its own or the general one.  The      *)
(* message list, the conversation list and the mobile client rely on it to *)
(* tell how to show it; the five tables of extensions and MIME types have  *)
(* to stay disjoint for it.                                                *)
MessageIsOneKind ==
    step = "stored" =>
        /\ message.length \in 0 .. MAX_MESSAGE_LENGTH
        /\ message.file_size \in 0 .. MAX_ATTACHMENT_SIZE_BYTES
        /\ IF message.type = "text"
             THEN message.file = "" /\ message.length > 0
             ELSE /\ message.file # "" /\ message.file_size > 0 /\ message.length = 0
                  /\ ValidAttachment(payload.attachment, "file")
                  /\ \A k \in MessageType \ {"text", "file"} :
                       ValidAttachment(payload.attachment, k) => message.type \in {k, "file"}
===============================================================================
