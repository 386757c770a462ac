------------------------------- MODULE CardList -------------------------------
(***************************************************************************)
(* The list of request cards on the quotation list (quotation_view.py) and *)
(* on the dashboard (dashboard_view.py).  Both views can build the list    *)
(* anew, and both bring the cards that are there in line with new data     *)
(* when an event arrives; the code is the same up to colours.              *)
(*                                                                         *)
(* A screen has the card of each request, with the record it was last      *)
(* configured with, and the widgets in the order they are packed, the label*)
(* "empty" being one of them.                                              *)
(***************************************************************************)
EXTENDS Sequences, SequencesExt

CONSTANT Empty \* the label shown in an empty list

Blank == [cards |-> << >>, packed |-> << >>]

Ids(records) == {records[i].id : i \in DOMAIN records}

Without(packed, ids) ==
  LET Stays(w) == w \notin ids IN SelectSeq(packed, Stays)

Card(cards, record) ==
  [i \in DOMAIN cards \cup {record.id} |->
     IF i = record.id THEN record ELSE cards[i]]

\* Cards whose request is not in the data are destroyed.
DropCards(screen, records) ==
  [cards  |-> [i \in DOMAIN screen.cards \cap Ids(records) |-> screen.cards[i]],
   packed |-> Without(screen.packed, DOMAIN screen.cards \ Ids(records))]

\* A new card is packed below the others; one that is there is configured.
PutCard(screen, record) ==
  [cards  |-> Card(screen.cards, record),
   packed |-> IF record.id \in DOMAIN screen.cards THEN screen.packed
              ELSE Append(screen.packed, record.id)]

\* pack_forget and pack: the card becomes the last one.
MoveDown(screen, record) ==
  [screen EXCEPT !.packed = Append(Without(@, {record.id}), record.id)]

SetEmpty(screen, records) ==
  IF records # << >> THEN [screen EXCEPT !.packed = Without(@, {Empty})]
  ELSE IF Empty \in ToSet(screen.packed) THEN screen
  ELSE [screen EXCEPT !.packed = Append(@, Empty)]

\* Mutant: new cards stay below the others.
SyncUnordered(screen, records) ==
  SetEmpty(FoldLeft(PutCard, DropCards(screen, records), records), records)

\* _sync_visible_request_cards, _sync_request_cards
Sync(screen, records) ==
  LET put == FoldLeft(PutCard, DropCards(screen, records), records)
  IN  SetEmpty(FoldLeft(MoveDown, put, records), records)

\* What a user expects to see: the cards of the records in their order.
Shows(screen, records) ==
  /\ screen.packed = IF records = << >> THEN << Empty >>
                     ELSE [i \in DOMAIN records |-> records[i].id]
  /\ DOMAIN screen.cards = Ids(records)
  /\ \A i \in DOMAIN records : screen.cards[records[i].id] = records[i]
===============================================================================
