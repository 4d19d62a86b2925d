-------------------------- MODULE MCTaskExecution --------------------------
(***************************************************************************)
(* TaskExecution for TLC: symmetry of the interchangeable loops, jobs and  *)
(* clicks, for the runs that check no liveness.  And TaskPrompt, what a task   *)
(* is told, against reference definitions.                                 *)
(***************************************************************************)
EXTENDS TaskExecution, TLC, SequencesExt

TaskSymmetry ==
  Permutations(Worker) \cup Permutations(Job) \cup Permutations(Click)

Prompt == INSTANCE TaskPrompt WITH PdfName <- {<<"a.pdf">>},
                                   THREAD_HISTORY_MAX_MESSAGES <- 3,
                                   MAX_PDF_BYTES <- 2

Attachment(fallback) == [title_link |-> None, title |-> None, pretext |-> None,
                         author_name |-> None, text |-> None, fallback |-> fallback]
MCFile == [name : {None, <<"a.pdf">>, <<"a">>}, title : {None, << >>, <<"a.pdf">>},
           plain_text : {None}, is_binary : BOOLEAN, mimetype : {None, "application/pdf"},
           download_url : {None, <<" ">>, <<"url">>}, size : {None, 2, 3}]
Raw(ts, event_type) == [ts |-> ts, user |-> None, text |-> <<"hi">>, attachments |-> << >>,
                        files |-> << >>, event_type |-> event_type]
RawMessage == {Raw(None, None)} \cup
              {Raw(<<t>>, e) : t \in {"1", "2"}, e \in {None, <<"task_control_message_posted">>}}
Page == [ok : BOOLEAN, messages : SeqOf(RawMessage, 2), next_cursor : {<<"next">>}]
Pages == {Append(first, [last EXCEPT !.next_cursor = None]) : first \in SeqOf(Page, 1), last \in Page}
Trigger(thread_ts) == [ts |-> <<"2">>, thread_ts |-> thread_ts]

(* The thread a task is told is what comes first of the messages that have a  *)
(* time, up to the limit, without the bot's own control messages, which       *)
(* count for the limit all the same: of a long thread the end is lost.        *)
ASSUME ThreadIsItsOldestPart ==
    \A pages \in Pages :
        LET timed == SelectSeq(FlattenSeq([i \in DOMAIN pages |-> pages[i].messages]),
                               LAMBDA raw : raw.ts # None)
            kept == SelectSeq(SubSeq(timed, 1, IF Len(timed) < 3 THEN Len(timed) ELSE 3),
                              LAMBDA raw : raw.event_type = None)
            thread == Prompt!LoadThreadContext(Trigger(<<"1">>), pages)
        IN  /\ (\A i \in DOMAIN pages : pages[i].ok)
                 => [i \in DOMAIN thread |-> thread[i].ts] = [i \in DOMAIN kept |-> kept[i].ts]
            /\ ~pages[1].ok => thread = << >>

(* Only a reply has a thread: the message that opens one has none.           *)
ASSUME OnlyRepliesHaveAThread ==
    \A pages \in Pages : \A thread_ts \in {None, <<"2">>} :
        Prompt!LoadThreadContext(Trigger(thread_ts), pages) = << >>

(* A message reads alike as the trigger of a task and in its thread, although *)
(* the adapter already puts the attachments in the place of a blank text.     *)
ASSUME RendersAlike ==
    \A text \in {None, <<" ">>, <<"hi">>}, attachments \in SeqOf({Attachment(None), Attachment(<<"fallback">>)}, 2),
      files \in SeqOf({[name |-> <<"a">>, title |-> None, plain_text |-> None, is_binary |-> TRUE]}, 1) :
        Prompt!RenderedText(Prompt!ReadMessage(
                [Raw(<<"1">>, None) EXCEPT !.text = text, !.attachments = attachments, !.files = files]))
          = Prompt!RenderedText([text |-> text, legacy_attachments |-> attachments, files |-> files])

(* Every memory is told exactly once, a shared one never as the channel's.    *)
ASSUME MemoriesAreToldOnce ==
    \A records \in SeqOf([fact : {"a", "b"}, visibility : {"shared", "channel"}], 3) :
        LET items == Prompt!LoadMemoryContext(TRUE, records)
            groups == Prompt!MemoryGroups(items)
            Count(seq, item) == Cardinality({i \in DOMAIN seq : seq[i] = item})
        IN  /\ \A i \in DOMAIN items : Count(FlattenSeq(groups), items[i]) = Count(items, items[i])
            /\ \A g \in DOMAIN groups : Cardinality({groups[g][i].shared : i \in DOMAIN groups[g]}) = 1

(* What a task needs none of cannot keep it from running: every failure ends  *)
(* in a prompt that says nothing of it.                                    *)
ASSUME FailuresAreSilent ==
    LET request == Prompt!TaskRequest([ts |-> <<"2">>, thread_ts |-> <<"1">>, user |-> <<"u">>, text |-> <<"hi">>,
                                       legacy_attachments |-> << >>, files |-> << >>],
                                      <<[ok |-> FALSE, messages |-> << >>, next_cursor |-> None]>>, TRUE, None)
    IN  Prompt!TaskPromptOf(request) = [thread |-> << >>, memory |-> << >>, posted_by |-> <<"u">>, message |-> <<"hi">>]

(* A document is a PDF with an address whose size is not known to be too      *)
(* large; a file the mail type does not tell is one by either of its names.   *)
ASSUME OnlyPdfsAreAttached ==
    \A file \in MCFile : \A downloads \in BOOLEAN :
        (Prompt!AttachedDocuments(<<file>>, file :> downloads) # << >>)
          <=> /\ downloads
              /\ file.mimetype # None \/ <<"a.pdf">> \in {file.name, file.title}
              /\ file.download_url = <<"url">>
              /\ file.size # 3

(* A time is the same whatever its digits beyond the third, and "5" after the  *)
(* point is half a second.                                                 *)
ASSUME TimesHaveThreeDigits ==
    /\ Prompt!IsoTimestamp(1, <<5>>) = 1500
    /\ Prompt!IsoTimestamp(1, <<1, 2, 3, 9>>) = Prompt!IsoTimestamp(1, <<1, 2, 3>>)
    /\ Prompt!IsoTimestamp(None, <<5>>) = None
=============================================================================
