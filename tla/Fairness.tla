------------------------------ MODULE Fairness ------------------------------
(***************************************************************************)
(* How a round's cards are drawn, signed and verified: the game engine's   *)
(* deriveDraw and signRound, and the API's own draw and verifyRound.       *)
(*                                                                         *)
(* HMAC is a random function: what it gives for the messages of a round is *)
(* chosen when the round opens, with its seed.  A signature is the text it *)
(* signs.                                                                  *)
(***************************************************************************)
EXTENDS Integers, Sequences, FiniteSets, SequencesExt, FiniteSetsExt

CONSTANTS Ranks, Suits, \* bound: ranks and suits in the deck
          Width,        \* bound: values of a four-byte window (2^32)
          Windows,      \* bound: windows of a digest (8)
          Bytes,        \* bound: values of a byte (256)
          None          \* not drawn, not signed, not verified

FairnessAssumption ==
    /\ Ranks \in 1 .. 13 /\ Suits \in 1 .. 4 /\ Ranks * Suits >= 2
    /\ Width \in Nat /\ Width >= Ranks * Suits
    /\ Bytes \in Nat /\ Bytes >= Ranks * Suits /\ Windows \in Nat \ {0}

RANKS == <<"A", "2", "3", "4", "5", "6", "7", "8", "9", "10", "J", "Q", "K">>
SUITS == <<"S", "H", "D", "C">>
DeckSize == Ranks * Suits
Outcomes == {"DRAGON", "TIGER", "TIE"}

BuildDeck == [i \in 1 .. DeckSize |-> <<RANKS[((i - 1) % Ranks) + 1], SUITS[((i - 1) \div Ranks) + 1]>>]

CardRank(card) == SelectInSeq(RANKS, LAMBDA r : r = card[1])

Decide(dragon, tiger) ==
    IF dragon > tiger THEN "DRAGON" ELSE IF tiger > dragon THEN "TIGER" ELSE "TIE"

Compare(dragon, tiger) == Decide(CardRank(dragon), CardRank(tiger))

-----------------------------------------------------------------------------
\* Values from here on would make the first cards of a pool likelier.
Limit(width, n) == width - (width % n)

Accepted(digest, n) == SelectInSeq(digest.windows, LAMBDA v : v < Limit(Width, n))

\* The first window that is accepted, or the retry digest's first.
PickCard(pool, digest) ==
    LET n == Len(pool)
        i == Accepted(digest, n)
    IN pool[((IF i > 0 THEN digest.windows[i] ELSE digest.retry) % n) + 1]

DeriveDraw(dragon, tiger) ==
    LET d == PickCard(BuildDeck, dragon)
        t == PickCard(Remove(BuildDeck, d), tiger)
    IN [dragon |-> d, tiger |-> t, outcome |-> Compare(d, t)]

\* Bytes are taken until two were accepted.
UniformBelow(stream) ==
    LET accepted == SelectSeq(stream, LAMBDA b : b < Limit(Bytes, DeckSize))
    IN [i \in DOMAIN accepted |-> accepted[i] % DeckSize]

\* The API's draw, and its way of writing a card: the suit first.
ApiDraw(stream) ==
    LET card(i) == UniformBelow(stream)[i]
        code(i) == <<SUITS[(card(i) \div Ranks) + 1], RANKS[(card(i) % Ranks) + 1]>>
    IN [dragon |-> code(1), tiger |-> code(2),
        outcome |-> Decide(card(1) % Ranks, card(2) % Ranks)]

-----------------------------------------------------------------------------
VARIABLES
    state,     \* of the round
    seed,      \* what HMAC gives for the round's seeds: two digests and a byte stream
    row,       \* the cards and the outcome in the database
    signature, \* fairnessSignature
    edited,    \* ghost: whether somebody has changed the row since
    report     \* the answer of the API's verifyRound, or None

vars == <<state, seed, row, signature, edited, report>>

Undrawn == [dragon |-> None, tiger |-> None, outcome |-> None]

\* signRound's text, and the one the API's computeSignature signs.
Signed(r) == <<"id", "seed", r.dragon, r.tiger, r.outcome>>

ApiSigned(r) == <<"id", "room", "hash", "seed", r.dragon, r.tiger, r.outcome>>

EngineVerifies == signature = Signed(row)

Digests == [windows : [1 .. Windows -> 0 .. Width - 1], retry : 0 .. Width - 1]
Streams == {s \in [1 .. 2 -> 0 .. Bytes - 1] : Len(UniformBelow(s)) = 2}

Init ==
    /\ state = "BETTING" /\ row = Undrawn /\ signature = None
    /\ edited = FALSE /\ report = None
    /\ seed \in [dragon : Digests, tiger : Digests, stream : Streams]

BeginDrawing ==
    /\ state = "BETTING" /\ state' = "DRAWING"
    /\ UNCHANGED <<seed, row, signature, edited, report>>

SettleRound ==
    /\ state = "DRAWING" /\ state' = "SETTLED"
    /\ row' = DeriveDraw(seed.dragon, seed.tiger)
    /\ signature' = Signed(row')
    /\ UNCHANGED <<seed, edited, report>>

\* Outside the program: a settled row is changed.
Edit(field, value) ==
    /\ state = "SETTLED" /\ ~edited /\ row[field] # value
    /\ row' = [row EXCEPT ![field] = value] /\ edited' = TRUE
    /\ UNCHANGED <<state, seed, signature, report>>

\* The API's verifyRound.  The row has its seed from the start, so it is shown, with
\* what it deals, whatever the state.
VerifyRound ==
    LET recomputed == ApiDraw(seed.stream)
        valid      == signature = None \/ ApiSigned(row) = signature
    IN report' = [serverSeed |-> seed, recorded |-> row, recomputed |-> recomputed,
                  verified |-> recomputed = row /\ valid]

Verify ==
    /\ report = None /\ VerifyRound
    /\ UNCHANGED <<state, seed, row, signature, edited>>

Next ==
    \/ BeginDrawing \/ SettleRound \/ Verify
    \/ \E o \in Outcomes : Edit("outcome", o)
    \/ \E i \in 1 .. DeckSize, side \in {"dragon", "tiger"} : Edit(side, BuildDeck[i])

Spec == Init /\ [][Next]_vars
-----------------------------------------------------------------------------
\* Two different cards of the deck, and the outcome they imply, Ace low.
DealtRight ==
    state = "SETTLED" /\ ~edited =>
        /\ row.dragon # row.tiger
        /\ \E i, j \in 1 .. DeckSize :
              /\ BuildDeck[i] = row.dragon /\ BuildDeck[j] = row.tiger
              /\ row.outcome = Decide((i - 1) % Ranks, (j - 1) % Ranks)

\* "any later mutation of the stored row is detectable" (fairness.ts 75)
EditDetected == state = "SETTLED" => (EngineVerifies <=> ~edited)

\* "Rejection sampling keeps the pick uniform": of the digests that need no retry,
\* as many deal the cards of this round as any other two.
Picks ==
    {p \in {d \in Digests : d.retry = 0} \X {d \in Digests : d.retry = 0} :
        Accepted(p[1], DeckSize) > 0 /\ Accepted(p[2], DeckSize - 1) > 0}
DealtBy ==
    [c \in Range(BuildDeck) \X Range(BuildDeck) |->
        Cardinality({p \in Picks : LET r == DeriveDraw(p[1], p[2]) IN <<r.dragon, r.tiger>> = c})]
Uniform ==
    state = "SETTLED" /\ ~edited =>
        DealtBy[row.dragon, row.tiger] * DeckSize * (DeckSize - 1) = Cardinality(Picks)

\* "folding would bias the deck": of the API's byte streams, as many draw what this
\* round's draws as any other two cards, which may be the same.
Taken == {s \in [1 .. 3 -> 0 .. Bytes - 1] : Len(UniformBelow(s)) >= 2}
DrawnBy ==
    [c \in (0 .. DeckSize - 1) \X (0 .. DeckSize - 1) |->
        Cardinality({s \in Taken : SubSeq(UniformBelow(s), 1, 2) = c})]
ApiUniform ==
    LET c == UniformBelow(seed.stream)
    IN DrawnBy[c[1], c[2]] * DeckSize * DeckSize = Cardinality(Taken)

\* "The game engine draws with it; the public endpoint verifies with it"
\* (fairness.service.ts 84): a round nobody has changed is never reported as failed
\* once it is settled.
HonestVerified == [][Verify /\ state = "SETTLED" /\ ~edited => report'.verified]_vars

\* "Seed is withheld until settlement - that is correct, not a failure"
\* (fairness.service.ts 226): a round that is still open is not reported as failed.
OpenNotFailed == [][Verify /\ state # "SETTLED" => report'.verified]_vars
=============================================================================
