----------------------------- MODULE TaskPrompt -----------------------------
(***************************************************************************)
(* What a task is told about the post it is for: the thread before it        *)
(* (slack_thread_history_adapter.rs, execution/thread_context.rs), the        *)
(* memories of its channel (execution/memory_context.rs), the texts and       *)
(* files of the messages (core/messaging/slack) and the prompt that is made   *)
(* of them (task_agent/prompt.rs, runner/task_runner.rs).                    *)
(*                                                                         *)
(* A text is None or a sequence of words; a blank one has no word but " ".    *)
(***************************************************************************)
EXTENDS Integers, SequencesExt, FiniteSetsExt

CONSTANTS None,
          PdfName,                     \* the names that end in ".pdf"
          THREAD_HISTORY_MAX_MESSAGES,
          MAX_PDF_BYTES

Empty == << >>
IsText(text) == text # None /\ \E i \in DOMAIN text : text[i] # " "
TextOr(text, default) == IF text = None THEN default ELSE text
TextsOf(texts) == FlattenSeq(SelectSeq(texts, LAMBDA text : text # None))

(***************************************************************************)
(* Texts and files of a message.                                           *)
(***************************************************************************)

(* SlackLegacyAttachment::rendered_text: a title or a text that is there but  *)
(* empty is not replaced by the pretext or the fallback.                    *)
AttachmentText(attachment) ==
    LET title == TextOr(TextOr(attachment.title, attachment.pretext), Empty)
        author == TextOr(attachment.author_name, Empty)
        body == TextOr(TextOr(attachment.text, attachment.fallback), Empty)
    IN  IF attachment.title_link = None /\ title \o author \o body = Empty THEN None
        ELSE TextOr(attachment.title_link, Empty) \o title \o author \o body

(* render_slack_legacy_attachments_text *)
AttachmentsText(attachments) == TextsOf([i \in DOMAIN attachments |-> AttachmentText(attachments[i])])

FileName(file) == IF file.name \notin {None, Empty} THEN file.name ELSE TextOr(file.title, Empty)

(* SlackMessageFile::rendered_text *)
FileText(file) ==
    IF FileName(file) = Empty /\ TextOr(file.plain_text, Empty) = Empty /\ ~file.is_binary THEN None
    ELSE FileName(file) \o (IF file.is_binary THEN <<"This is binary file">> ELSE << >>)
         \o TextOr(file.plain_text, Empty)

FilesText(files) == TextsOf([i \in DOMAIN files |-> FileText(files[i])])

(* rendered_text, alike for a message and one of a thread: the attachments    *)
(* stand in for a text that is missing.                                     *)
RenderedText(message) ==
    (IF IsText(message.text) THEN message.text ELSE AttachmentsText(message.legacy_attachments))
    \o FilesText(message.files)

PostedBy(message) == IF IsText(message.user) THEN message.user ELSE <<"system">>

(* iso_timestamp, of the seconds and the digits after the point: None is      *)
(* "unknown".  Of the digits three count, missing ones as zeros.            *)
IsoTimestamp(seconds, digits) ==
    LET Digit(i) == IF i \in DOMAIN digits THEN digits[i] ELSE 0
    IN  IF seconds = None THEN None
        ELSE seconds * 1000 + Digit(1) * 100 + Digit(2) * 10 + Digit(3)

(***************************************************************************)
(* The thread.                                                             *)
(***************************************************************************)

(* A message of conversations.replies; attachments and files that cannot be   *)
(* parsed are none.                                                        *)
ReadMessage(raw) ==
    [ts |-> raw.ts,
     user |-> IF IsText(raw.user) THEN raw.user ELSE None,
     text |-> IF IsText(raw.text) THEN raw.text ELSE AttachmentsText(raw.attachments),
     legacy_attachments |-> raw.attachments,
     files |-> raw.files,
     event_type |-> IF IsText(raw.event_type) THEN raw.event_type ELSE None]

(* fetch_thread_history: page by page, from the oldest message on, until there *)
(* is no further page or enough messages; messages without a time are skipped. *)
(* A page that fails fails all: None.                                       *)
FetchThreadHistory(pages) ==
    LET HasTime(raw) == IsText(raw.ts)
        upTo(n) == SelectSeq(FlattenSeq([i \in 1..n |-> pages[i].messages]), HasTime)
        last == Min({n \in DOMAIN pages : \/ ~pages[n].ok
                                         \/ Len(upTo(n)) >= THREAD_HISTORY_MAX_MESSAGES
                                         \/ ~IsText(pages[n].next_cursor)})
    IN  IF ~pages[last].ok THEN None
        ELSE [i \in 1..Min({Len(upTo(last)), THREAD_HISTORY_MAX_MESSAGES}) |-> ReadMessage(upTo(last)[i])]

IsThreadReply(message) == message.thread_ts # None /\ message.thread_ts # message.ts

IsTaskControlMessage(message) == message.event_type = <<"task_control_message_posted">>

(* SlackThreadContextLoader::load_for_message: a thread that cannot be fetched *)
(* is no thread.                                                           *)
LoadThreadContext(message, pages) ==
    LET history == FetchThreadHistory(pages)
        IsContext(entry) == ~IsTaskControlMessage(entry)
    IN  IF ~IsThreadReply(message) THEN << >>
        ELSE IF history = None THEN << >>
        ELSE SelectSeq(history, IsContext)

(***************************************************************************)
(* Memories and the prompt.                                                *)
(***************************************************************************)

(* SlackMemoryContextLoader::load_for_message: of the records of the port,    *)
(* None when it failed.                                                    *)
LoadMemoryContext(enabled, records) ==
    IF ~enabled \/ records = None THEN << >>
    ELSE [i \in DOMAIN records |->
            [fact |-> records[i].fact, shared |-> records[i].visibility = "shared"]]

(* run_task: a task needs none of it to start. *)
TaskRequest(message, pages, memoryEnabled, records) ==
    [trigger_message |-> message,
     thread_messages |-> LoadThreadContext(message, pages),
     memory_items |-> LoadMemoryContext(memoryEnabled, records)]

(* build_memory_context: the shared group comes first. *)
MemoryGroups(items) ==
    LET groups == <<SelectSeq(items, LAMBDA item : item.shared),
                    SelectSeq(items, LAMBDA item : ~item.shared)>>
    IN  SelectSeq(groups, LAMBDA group : group # << >>)

(* build_thread_transcript *)
ThreadTranscript(messages) ==
    [i \in DOMAIN messages |-> [ts |-> messages[i].ts, posted_by |-> PostedBy(messages[i]),
                                text |-> RenderedText(messages[i])]]

(* build_task_prompt *)
TaskPromptOf(request) ==
    [thread |-> ThreadTranscript(request.thread_messages),
     memory |-> MemoryGroups(request.memory_items),
     posted_by |-> request.trigger_message.user,
     message |-> RenderedText(request.trigger_message)]

IsPdf(file) == file.mimetype = "application/pdf" \/ file.name \in PdfName \/ file.title \in PdfName

PdfDownloadUrl(file) == IF IsPdf(file) /\ IsText(file.download_url) THEN file.download_url ELSE None

(* build_prompt_message: the files that are attached; downloaded[f] tells      *)
(* whether a download within the limit succeeds.                            *)
AttachedDocuments(files, downloaded) ==
    SelectSeq(files, LAMBDA file :
        /\ PdfDownloadUrl(file) # None
        /\ file.size # None => file.size <= MAX_PDF_BYTES
        /\ downloaded[file])
=============================================================================
