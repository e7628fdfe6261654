-------------------------- MODULE BreadcrumbEncoding --------------------------
(***************************************************************************)
(* How forgeops_breadcrumb_add (src/breadcrumbs.c) makes an entry fit its  *)
(* slot: encode, and as long as the result is too long drop the last data  *)
(* pair or, with none left, halve the message.  Of a text only the length  *)
(* matters, how many bytes each of its bytes takes once escaped, and how   *)
(* many UTF-8 continuation bytes a cut through it has to step back over.   *)
(* An entry is a message, a category, a level and pairs of a key and a     *)
(* value, all scrubbed by then.                                            *)
(***************************************************************************)
EXTENDS Integers, Sequences

CONSTANTS
  SlotSize,         \* FORGEOPS_BREADCRUMB_SLOT_SIZE, with the final NUL
  MaxMessageBytes,  \* MAX_MESSAGE_BYTES
  MaxTagBytes       \* MAX_TAG_BYTES

ASSUME EncodingAssumption == SlotSize \in Nat /\ MaxMessageBytes \in Nat \ {0} /\ MaxTagBytes \in Nat

\* A text, and an entry of texts: a control character takes six bytes once
\* escaped, a UTF-8 sequence has up to three continuation bytes.
MaxEscape == 6
EntryText == [length : Nat, growth : 1..MaxEscape, overhang : 0..3]
Entry == [message : EntryText, category : EntryText, level : EntryText,
          pairs : Seq([key : EntryText, value : EntryText])]

\* What is left of a text that may have max bytes: a cut never splits a
\* UTF-8 sequence.
Cut(text, max) ==
  IF text.length <= max THEN text.length
  ELSE IF text.overhang < max THEN max - text.overhang ELSE 0

\* json_append_escaped: two quotes, and every byte escaped.
EscapedLength(text, max) == 2 + text.growth * Cut(text, max)

\* The keys, braces, colons and commas of an entry, and its timestamp.
FixedLength == 12 + 11 + 9 + 13 + 22 + 9 + 2

\* The slot of the code holds a category and a level of any characters and 16
\* bytes of a message.
ASSUME SlotAssumption ==
  FixedLength + 2 * (2 + MaxEscape * MaxTagBytes) + 2 + MaxEscape * 16 < SlotSize

PairsLength(pairs) ==
  LET Sum[n \in 0..Len(pairs)] ==
        IF n = 0 THEN 0
        ELSE Sum[n - 1] + EscapedLength(pairs[n].key, MaxTagBytes) + 1
               + EscapedLength(pairs[n].value, MaxMessageBytes) + (IF n > 1 THEN 1 ELSE 0)
  IN Sum[Len(pairs)]

\* strlen of what encode_entry returns.
EncodedLength(entry, pairCount, messageBytes) ==
  FixedLength + EscapedLength(entry.category, MaxTagBytes)
    + EscapedLength(entry.message, messageBytes) + EscapedLength(entry.level, MaxTagBytes)
    + PairsLength(SubSeq(entry.pairs, 1, pairCount))

Fits(entry, pairCount, messageBytes) == EncodedLength(entry, pairCount, messageBytes) < SlotSize

\* Gives up four times as early.
MutCanShorten(messageBytes) == messageBytes > 64

CanShorten(messageBytes) == messageBytes > 16

\* The loop: how many pairs and how many bytes of the message are kept.
Dropped == [pairs |-> 0, bytes |-> 0]
KeptOf(entry) ==
  LET Kept[try \in (0..Len(entry.pairs)) \X (1..MaxMessageBytes)] ==
        LET pairCount == try[1]  messageBytes == try[2]
        IN IF Fits(entry, pairCount, messageBytes) THEN [pairs |-> pairCount, bytes |-> messageBytes]
           ELSE IF pairCount > 0 THEN Kept[<<pairCount - 1, messageBytes>>]
           ELSE IF CanShorten(messageBytes) THEN Kept[<<0, messageBytes \div 2>>]
           ELSE Dropped
  IN Kept[<<Len(entry.pairs), MaxMessageBytes>>]

-----------------------------------------------------------------------------
\* The line the signal handler writes for an entry: "#breadcrumb ", the entry
\* and a newline.
LineLength(encoded) == 12 + encoded + 1

\* Whatever the texts are, an entry is kept: the branch that drops one
\* (breadcrumbs.c:175-179) is never taken.  No pair goes that would have fit,
\* the message is shortened only once all of them are gone, and the line of
\* the entry fits the buffer that complete_json reads it back into with fgets
\* (signal_handler.c:162-164), so that one line is one entry.
EntryIsKeptAndReadBack(entry) ==
  LET kept == KeptOf(entry)
      encoded == EncodedLength(entry, kept.pairs, kept.bytes)
  IN /\ kept # Dropped
     /\ kept.pairs < Len(entry.pairs) => ~Fits(entry, kept.pairs + 1, MaxMessageBytes)
     /\ kept.bytes < MaxMessageBytes => kept.pairs = 0 /\ ~Fits(entry, 0, MaxMessageBytes)
     /\ LineLength(encoded) < SlotSize + 64
=============================================================================
