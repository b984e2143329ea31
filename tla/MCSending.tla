------------------------------- MODULE MCSending -------------------------------
(* What send_message checks first and what it does then, side by side: the *)
(* rules of MessagePayload read no shared state and Messaging reads no     *)
(* payload, so that a behaviour need only take the steps of one of them.   *)
EXTENDS MCMessaging, MessagePayload

(* Contents and files at the limits: every extension with every MIME type  *)
(* the tables name, and files Pillow rejects.                              *)
Lengths == {0, 1, MAX_MESSAGE_LENGTH, MAX_MESSAGE_LENGTH + 1}
AllContents == [text : Lengths, around : {0, 1, MAX_MESSAGE_LENGTH + 1}]

Mimes(table) == UNION {table[e] : e \in DOMAIN table}
AllMimes == Mimes(IMAGE_MIME_MAP) \union Mimes(AUDIO_MIME_MAP)
            \union Mimes(VIDEO_MIME_MAP) \union ALLOWED_DOCUMENT_MIMES
            \union {"application/octet-stream", UNREADABLE}

(* every pair of an extension and a MIME type at the size limit *)
Pairs == [ext : ALLOWED_FILE_EXTENSIONS \union {"", ".exe"},
          size : {MAX_ATTACHMENT_SIZE_BYTES}, mime : AllMimes,
          image : {MAX_IMAGE_DIMENSION}]

(* files at and beyond the limits of size and dimension *)
Limits == [ext : {".jpg", ".mp4", ".pdf"},
           size : {0, 1, MAX_ATTACHMENT_SIZE_BYTES + 1},
           mime : {"image/jpeg", "video/mp4", "application/pdf", UNREADABLE},
           image : {0, 1, MAX_IMAGE_DIMENSION, MAX_IMAGE_DIMENSION + 1}]

AllAttachments == Pairs \union Limits

(* an empty text or any other, with no file or one; any file without text  *)
TriedPosts ==
    [type : MessageType \union {"sticker"}, content : AllContents,
     attachment : {NoFile, [ext |-> ".pdf", size |-> 1, mime |-> "application/pdf",
                            image |-> 0]}]
    \union
    [type : MessageType \union {"sticker"}, content : {[text |-> 0, around |-> 0]},
     attachment : AllAttachments \union {NoFile}]

SendingInit == InitFirstOfFirst /\ PayloadInit

(* Payloads are posted while Messaging is in one of its initial states. *)
AtStart ==
    /\ pc = [r \in Requests |-> "idle"] /\ user[r2] = u1
    /\ clock = 0 /\ Participants = {u1} /\ born = row

SendingNext == \/ step = "new" /\ Next /\ UNCHANGED payloadVars
               \/ AtStart /\ PayloadNext /\ UNCHANGED vars

Sending == SendingInit /\ [][SendingNext]_<<vars, payloadVars>> /\ Fairness
===============================================================================
