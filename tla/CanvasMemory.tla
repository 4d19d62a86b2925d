---------------------------- MODULE CanvasMemory ----------------------------
(***************************************************************************)
(* The memories that agents keep in one Slack Canvas                        *)
(* (adapters/outbound/slack/slack_canvas_memory_adapter.rs): a section (h2) *)
(* for every channel and one that all channels share, and in each section   *)
(* one entry (h3) per memory, whose heading is the second it was saved in.  *)
(* Slack offers no conditional edit: saving reads the document, looks up    *)
(* the sections it will touch, and edits it in requests of their own, while *)
(* others do the same.                                                      *)
(*                                                                         *)
(* Permalinks and display names are looked up on the way and may fail        *)
(* without effect: they are text.  Markdown and HTML are modelled as what    *)
(* they are parsed into.                                                     *)
(***************************************************************************)
EXTENDS Integers, FiniteSets, SequencesExt, TLC

CONSTANTS Call,         \* tool calls that may save memories at the same time
          Section,      \* a section for each channel, and the shared one
          Shared,
          Cap,          \* memories kept in a section; a cap of zero keeps one, as one does
          MaxSaves,     \* bound: memories that are saved
          MaxNow        \* bound: seconds that pass

ASSUME MemoryAssumption == /\ Shared \in Section
                           /\ Cap \in Nat \ {0}
                           /\ {MaxSaves, MaxNow} \subseteq Nat

VARIABLES headings,     \* the document: the headings of its sections, in order
          entries,      \* and the entries below them, each below a heading
          edits,        \* edits of it so far; numbers the entries
          append,       \* append[c]: the append_memory of call c, where it is and what it has read
          now,          \* the wall clock, in seconds
          second        \* auxiliary: "quiet" when no save has begun in this second, "used"
                        \* when one has, and "shared" for good when two have begun in one

documentVars == <<headings, entries, edits>>
canvasVars == <<documentVars, append, now, second>>

MAX_EDIT_ATTEMPTS == 3

(* Entries are inserted right below their heading: the later one is above.  *)
Entry == [at : 0..MaxNow, id : 1..MaxSaves, under : Nat]

NoAppend == [pc |-> "idle", section |-> Shared, at |-> 0,
             overflow |-> {}, target |-> 0, drops |-> <<>>, tries |-> 0]

CanvasInit == /\ headings = <<>>
              /\ entries = {}
              /\ edits = 0
              /\ append = [c \in Call |-> NoAppend]
              /\ now = 0
              /\ second = "quiet"

-----------------------------------------------------------------------------
(* Reading                                                                  *)

(* Two writers that find no section each add one: the parser reads every    *)
(* section with the heading as one.                                         *)
SectionEntries(s) == {e \in entries : headings[e.under] = s}

(* Entries of one second are told apart, in any way: pruning looks up their *)
(* second, once for each of them.                                          *)
Newer(e, f) == e.at > f.at \/ (e.at = f.at /\ e.id > f.id)

(* Mutant: the memories are sorted oldest first when the surplus is cut off. *)
OverflowNewest(s) ==
    {e \in SectionEntries(s) : Cardinality({f \in SectionEntries(s) : Newer(e, f)}) >= Cap - 1}

(* The oldest entries, those beyond the Cap - 1 newest.                      *)
Overflow(s) ==
    {e \in SectionEntries(s) : Cardinality({f \in SectionEntries(s) : Newer(f, e)}) >= Cap - 1}

(* canvases.sections.lookup answers with the sections that contain a text;  *)
(* the first one in the document is taken.                                  *)
LookupSectionId(s) ==
    LET matches == {i \in DOMAIN headings : headings[i] = s} IN
    IF matches = {} THEN 0 ELSE CHOOSE i \in matches : \A j \in matches : i <= j

Above(e, f) == e.under < f.under \/ (e.under = f.under /\ e.id > f.id)

(* The first h3 that contains a time, of whatever section: the one answer,  *)
(* which has its id or none.                                                *)
LookupEntryIds(at) ==
    LET matches == {e \in entries : e.at = at} IN
    IF matches = {} THEN {<<>>}
    ELSE {<<e.id>> : e \in {f \in matches : \A g \in matches \ {f} : Above(f, g)}}

-----------------------------------------------------------------------------
(* append_memory                                                            *)

Saving(c) == append[c].pc # "idle"

(* The entry gets its time first, before any request is made.               *)
BeginAppend(c, s) ==
    /\ ~Saving(c)
    /\ append' = [append EXCEPT ![c] = [NoAppend EXCEPT !.pc = "fetch", !.section = s, !.at = now]]
    /\ second' = IF second = "quiet" THEN "used" ELSE "shared"
    /\ UNCHANGED <<documentVars, now>>

(* files.info, and the download of the document when it is not inlined.      *)
FetchCanvas(c) ==
    /\ append[c].pc = "fetch"
    /\ append' = [append EXCEPT ![c].pc = "lookup_section",
                                ![c].overflow = Overflow(append[c].section)]
    /\ UNCHANGED <<documentVars, now, second>>

LookupSection(c) ==
    /\ append[c].pc = "lookup_section"
    /\ append' = [append EXCEPT ![c].pc = "lookup_overflow",
                                ![c].target = LookupSectionId(append[c].section)]
    /\ UNCHANGED <<documentVars, now, second>>

(* One lookup for each entry to delete, the newest first; one that is not   *)
(* found is passed over.                                                   *)
LookupOverflow(c) ==
    /\ append[c].pc = "lookup_overflow"
    /\ \E e \in append[c].overflow :
         /\ \A f \in append[c].overflow \ {e} : Newer(e, f)
         /\ \E ids \in LookupEntryIds(e.at) :
              append' = [append EXCEPT ![c].overflow = @ \ {e}, ![c].drops = @ \o ids]
    /\ UNCHANGED <<documentVars, now, second>>

NewEntry(c) ==
    [at |-> append[c].at, id |-> edits + 1,
     under |-> IF append[c].target = 0 THEN Len(headings) + 1 ELSE append[c].target]

EntryIds == {e.id : e \in entries}

(* Slack refuses an edit of sections that are gone, or are deleted twice.   *)
Applicable(c) == /\ IsInjective(append[c].drops)
                 /\ ToSet(append[c].drops) \subseteq EntryIds

ReadyToEdit(c) == append[c].pc = "lookup_overflow" /\ append[c].overflow = {}

(* canvases.edit: the insertion and the deletions in one request.           *)
ApplyEdit(c) ==
    /\ ReadyToEdit(c)
    /\ edits < MaxSaves
    /\ Applicable(c)
    /\ headings' = IF append[c].target = 0 THEN Append(headings, append[c].section) ELSE headings
    /\ entries' = {e \in entries : e.id \notin ToSet(append[c].drops)} \cup {NewEntry(c)}
    /\ edits' = edits + 1
    /\ append' = [append EXCEPT ![c] = NoAppend]
    /\ UNCHANGED <<now, second>>

(* While someone edits the Canvas the same changes are sent again.           *)
EditLocked(c) ==
    /\ ReadyToEdit(c)
    /\ append[c].tries + 1 < MAX_EDIT_ATTEMPTS
    /\ append' = [append EXCEPT ![c].tries = @ + 1]
    /\ UNCHANGED <<documentVars, now, second>>

(* Any request may fail; the caller is told so and goes on.                 *)
AppendFails(c) ==
    /\ Saving(c)
    /\ append' = [append EXCEPT ![c] = NoAppend]
    /\ UNCHANGED <<documentVars, now, second>>

AppendStep(c) == \/ FetchCanvas(c)
                 \/ LookupSection(c)
                 \/ LookupOverflow(c)
                 \/ ApplyEdit(c)
                 \/ EditLocked(c)
                 \/ AppendFails(c)

(* Only the order of the times matters: seconds without a save are left out. *)
SecondPasses ==
    /\ now < MaxNow
    /\ second # "quiet"
    /\ now' = now + 1
    /\ second' = IF second = "shared" THEN "shared" ELSE "quiet"
    /\ UNCHANGED <<documentVars, append>>

(* An agent that ends drops what it is saving.                              *)
DropAppends ==
    /\ \E dropped \in SUBSET Call :
         append' = [c \in Call |-> IF c \in dropped THEN NoAppend ELSE append[c]]
    /\ UNCHANGED <<documentVars, now, second>>

(* The Canvas under any writers.                                            *)
MemoryNext == \/ \E c \in Call : AppendStep(c) \/ \E s \in Section : BeginAppend(c, s)
              \/ SecondPasses
              \/ DropAppends

MemorySpec == CanvasInit /\ [][MemoryNext]_canvasVars

-----------------------------------------------------------------------------
(* Every entry is below a heading and has a number of its own, and an edit   *)
(* under way inserts below a heading that is there and is the right one.     *)
CanvasTypeOK ==
    /\ headings \in Seq(Section)
    /\ entries \subseteq Entry
    /\ \A e \in entries : e.under \in DOMAIN headings
    /\ \A e, f \in entries : e.id = f.id => e = f
    /\ edits \in 0..MaxSaves /\ now \in 0..MaxNow
    /\ \A c \in Call : /\ append[c].at \in 0..now
                       /\ append[c].overflow \subseteq Entry
                       /\ append[c].drops \in Seq(1..MaxSaves)
                       /\ append[c].target # 0 =>
                            /\ append[c].target \in DOMAIN headings
                            /\ headings[append[c].target] = append[c].section

(* The call whose edit takes effect in this step. *)
Edits(c) == /\ ReadyToEdit(c)
            /\ edits' = edits + 1
            /\ append'[c] = NoAppend

Pruned == entries \ entries'

(* Saving a memory removes entries of its own section only, and only what is *)
(* older than the memories it keeps: whoever else saves at the same time, at *)
(* least Cap - 1 others that are not older stay (overflow_timestamps over a  *)
(* document that has changed since it was read).  Entries are looked up by   *)
(* their second, so it takes that no two were saved in one.                  *)
PrunesOldest ==
    [][second # "shared" =>
         \A c \in Call : Edits(c) =>
           \A s \in {append[c].section} : \A gone \in Pruned :
              /\ gone \in SectionEntries(s)
              /\ Cardinality({e \in SectionEntries(s)' : e.id # edits' /\ e.at >= gone.at})
                    >= Cap - 1]_canvasVars

(* canvas_memory.rs:56 "pruning that section's entries beyond the           *)
(* retention cap": a memory that is saved removes nothing from the other    *)
(* sections.  It does when an entry of another section was saved in the     *)
(* same second as the one to prune and comes first in the document.         *)
OtherSectionsKept ==
    [][\A c \in Call : Edits(c) => Pruned \subseteq SectionEntries(append[c].section)]_canvasVars

=============================================================================
