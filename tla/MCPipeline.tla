----------------------------- MODULE MCPipeline -----------------------------
(***************************************************************************)
(* Instances of Pipeline for TLC: the cards a household really sees.       *)
(***************************************************************************)
EXTENDS Pipeline

CONSTANTS a1, a2, p1, p2, mother, child, stranger, f1

\* A card: the kind of the whole, its items in order (all switched on), its fact.
MCCard(whole, items, f) ==
  [kind |-> [i \in 0..Width |-> IF i = 0 THEN whole
                                ELSE IF i \in DOMAIN items THEN items[i] ELSE "none"],
   on |-> DOMAIN items,
   fact |-> f]

\* A letter about an event with a payment (items_for): a file and a reminder;
\* an event alone, with a calendar connected: a calendar entry.
LetterCard == MCCard("bundle", <<"send", "reminder">>, f1)
CalendarCard == MCCard("bundle", <<"calendar">>, f1)

\* Two outward items on one card, and the degraded card without items.
OutwardCard == MCCard("bundle", <<"send", "send">>, NoFact)
EmptyCard == MCCard("bundle", <<>>, f1)

\* Proposals of the tools and of the console: reminder, memory, export.
ReminderCard == MCCard("reminder", <<>>, NoFact)
MemoryCard == MCCard("memory", <<>>, f1)
ExportCard == MCCard("send", <<>>, NoFact)

AllCards == {LetterCard, CalendarCard, OutwardCard, EmptyCard, ReminderCard, MemoryCard,
             ExportCard}

ToggleCards == {MCCard("bundle", <<"reminder", "send">>, NoFact)}
SerialCards == ToggleCards \cup {ReminderCard}

\* The mother may confirm everything, the child no sending; the stranger has
\* the rights but presses from another chat.
MCMay == [c \in Person |-> IF c = child THEN Kinds \ {"send"} ELSE Kinds]

Everyone == {mother, child, stranger}
Parents == {mother}
Family == {mother, child}

=============================================================================
