------------------------------- MODULE ReplyText -------------------------------
(***************************************************************************)
(* What becomes of a reply's tokens on their way to the user               *)
(* (ReplyTextStream): bytes to characters, tool-call markup held back,     *)
(* special tokens dropped.  A text is a sequence of symbols: a character,  *)
(* "t" for the inside of a tag or a word, "{}" for a call's whole body,    *)
(* Lead and Follow for the two bytes of one character, Bad for a byte no   *)
(* character has.                                                          *)
(***************************************************************************)
EXTENDS Naturals, Sequences, SequencesExt, FiniteSetsExt

CONSTANTS MaxTag   \* characters inside a <|tag|> at most: 64

ASSUME TagAssumption == MaxTag \in Nat \ {0}

Lead == "lead"
Follow == "follow"
Bad == "bad"

(* Tool-call formats: the marker that opens a call, or bare: a call is the *)
(* whole reply; anywhere: each marker may open one.                        *)
NoTools == [tools |-> FALSE, bare |-> FALSE, marker |-> << >>, anywhere |-> FALSE]
Tagged  == [tools |-> TRUE, bare |-> FALSE, marker |-> <<"<", "t", ">">>, anywhere |-> FALSE]
Gemma   == [tools |-> TRUE, bare |-> FALSE, marker |-> <<"<", "|", "t", ">">>, anywhere |-> TRUE]
BareJson == [tools |-> TRUE, bare |-> TRUE, marker |-> << >>, anywhere |-> FALSE]

From(s, i) == SubSeq(s, i, Len(s))
UpTo(s, i) == SubSeq(s, 1, i)
StartsAt(s, what, i) == i + Len(what) - 1 <= Len(s) /\ SubSeq(s, i, i + Len(what) - 1) = what
(* str.find: the first place of what in s, behind the end if it has none. *)
Find(s, what) == Min({i \in DOMAIN s : StartsAt(s, what, i)} \cup {Len(s) + 1})
Stripped(s) == From(s, Min({i \in DOMAIN s : s[i] # " "} \cup {Len(s) + 1}))

-----------------------------------------------------------------------------
(* IncrementalTextDecoder: what can be decoded goes on, the rest waits. *)

Decodable(bytes) ==
  \A i \in DOMAIN bytes : /\ bytes[i] # Bad
                          /\ bytes[i] = Lead => i < Len(bytes) /\ bytes[i + 1] = Follow
                          /\ bytes[i] = Follow => i > 1 /\ bytes[i - 1] = Lead
Decodes(bytes) == Max({k \in 0..Len(bytes) : Decodable(UpTo(bytes, k))})
Characters(bytes) == SelectSeq(UpTo(bytes, Decodes(bytes)), LAMBDA b : b # Lead)
Undecoded(bytes) == From(bytes, Decodes(bytes) + 1)

-----------------------------------------------------------------------------
(* ToolCallScanner: state and what may be shown. *)

NewScanner(format) ==
  [pending |-> << >>, held |-> << >>, capturing |-> FALSE, undecided |-> format.bare]

ForgetsPrefix(marker, pending) == 0  \* a mutant
(* The longest end of the pending text that may yet become the marker. *)
KeptPrefix(marker, pending) ==
  Max({0} \cup {k \in 1..Len(marker) - 1 : k <= Len(pending)
                  /\ From(pending, Len(pending) - k + 1) = UpTo(marker, k)})

Feeds(scanner, shown) == [scanner |-> scanner, shown |-> shown]
FeedBareJson(s) ==
  LET text == Stripped(s.pending)
      capture == s.undecided /\ text # << >> /\ text[1] \in {"{}", "["}
  IN CASE s.undecided /\ text = << >> -> Feeds(s, << >>)
       [] capture -> Feeds([s EXCEPT !.undecided = FALSE, !.capturing = TRUE,
                              !.held = s.pending, !.pending = << >>], << >>)
       [] OTHER -> Feeds([s EXCEPT !.undecided = FALSE, !.pending = << >>], s.pending)
FeedMarked(format, s) ==
  LET start == Find(s.pending, format.marker)
      keep == KeptPrefix(format.marker, s.pending)
  IN IF start <= Len(s.pending)
     THEN Feeds([s EXCEPT !.held = From(s.pending, start), !.pending = << >>, !.capturing = TRUE],
                UpTo(s.pending, start - 1))
     ELSE Feeds([s EXCEPT !.pending = From(s.pending, Len(s.pending) - keep + 1)],
                UpTo(s.pending, Len(s.pending) - keep))
Scan(format, s, text) ==
  CASE ~format.tools -> Feeds(s, text)
    [] format.tools /\ s.capturing -> Feeds([s EXCEPT !.held = @ \o text], << >>)
    [] format.tools /\ ~s.capturing /\ format.bare -> FeedBareJson([s EXCEPT !.pending = @ \o text])
    [] OTHER -> FeedMarked(format, [s EXCEPT !.pending = @ \o text])

(* ToolCallFormat.parse: the held text has a call in it. *)
IsCall(format, held) ==
  IF format.bare
  THEN Reverse(Stripped(Reverse(Stripped(held)))) = <<"{}">>
  ELSE \E i \in DOMAIN held : /\ i = 1 \/ format.anywhere
                              /\ StartsAt(held, Append(format.marker, "{}"), i)

(* ToolCallScanner.finish *)
Owed(format, s) ==
  IF s.capturing THEN (IF IsCall(format, s.held) THEN << >> ELSE s.held) ELSE s.pending

-----------------------------------------------------------------------------
(* SpecialTokenTextFilter *)

TagStart == <<"<", "|">>
Inner(c) == c \notin {"<", "|", ">", " "}
IsTag(s) ==
  /\ Len(s) \in 5..MaxTag + 4 /\ UpTo(s, 2) = TagStart /\ From(s, Len(s) - 1) = <<"|", ">">>
  /\ \A i \in 3..Len(s) - 2 : Inner(s[i])
MayBecomeTag(s) == Len(s) <= MaxTag + 4 /\ \A i \in 3..Len(s) : Inner(s[i])

Filter[text \in Seq(STRING)] ==
  LET start == Find(text, TagStart)
      candidate == From(text, start)
      tags == {k \in DOMAIN candidate : IsTag(UpTo(candidate, k))}
      After(k, shown) ==
        LET rest == Filter[From(candidate, k + 1)]
        IN [rest EXCEPT !.shown = UpTo(text, start - 1) \o shown \o @]
  IN CASE start > Len(text) -> [shown |-> text, pending |-> << >>]
       [] start <= Len(text) /\ tags # {} -> After(Max(tags), << >>)
       [] start <= Len(text) /\ tags = {} /\ MayBecomeTag(candidate) ->
            [shown |-> UpTo(text, start - 1), pending |-> candidate]
       [] OTHER -> After(2, TagStart)

-----------------------------------------------------------------------------
(* ReplyTextStream *)

NewStream(format) ==
  [buffer |-> << >>, scanner |-> NewScanner(format), pending |-> << >>, shown |-> << >>]

Push(format, s, bytes) ==
  LET all == s.buffer \o bytes
      scanned == Scan(format, s.scanner, Characters(all))
      filtered == Filter[s.pending \o scanned.shown]
  IN [buffer |-> Undecoded(all), scanner |-> scanned.scanner,
      pending |-> filtered.pending, shown |-> s.shown \o filtered.shown]

Finish(format, s) ==
  LET filtered == Filter[s.pending \o (IF format.tools THEN Owed(format, s.scanner) ELSE << >>)]
  IN s.shown \o filtered.shown \o filtered.pending

-----------------------------------------------------------------------------
(* What the user is promised: the characters before the first byte that is *)
(* none (IncrementalTextDecoder waits there for good), without the markup  *)
(* from the first marker on if there is a call in it, without whole tags.  *)
Tags(text) == {<<a, b>> \in (1..Len(text)) \X (1..Len(text)) : a < b /\ IsTag(SubSeq(text, a, b))}
Without(text, tags) ==
  LET Cut(i) == \E tag \in tags : i \in tag[1]..tag[2]
  IN FoldLeftDomain(LAMBDA kept, i : IF Cut(i) THEN kept ELSE Append(kept, text[i]), << >>, text)
HeldFrom(format, text) ==
  CASE ~format.tools -> Len(text) + 1
    [] format.tools /\ format.bare ->
         IF Stripped(text) # << >> /\ Stripped(text)[1] \in {"{}", "["} THEN 1 ELSE Len(text) + 1
    [] OTHER -> Find(text, format.marker)
Promised(format, bytes) ==
  LET text == Characters(bytes)
      held == From(text, HeldFrom(format, text))
  IN IF held # << >> /\ IsCall(format, held) THEN UpTo(text, Len(text) - Len(held)) ELSE text
=============================================================================
