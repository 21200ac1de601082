------------------------------- MODULE Codec --------------------------------
(***************************************************************************)
(* The framings of the classic mode (transport/codec.go): a client and an  *)
(* exit over a carrier that may lose, delay and reorder frames.  Each      *)
(* speaks one framing, or both and follows its peer; the client, which     *)
(* speaks first, changes to the other one while it hears nothing.  The     *)
(* exit answers what it understands.                                       *)
(***************************************************************************)
EXTENDS Naturals

CONSTANT
    CodecPairs   \* which kinds of peers meet, <<client, exit>>

\* batched, legacy: a peer that speaks that framing only, as BatchedTransport or the
\* CompressedTransport of old did.  codec: CodecTransport.
CodecKinds == {"batched", "legacy", "codec"}
ASSUME CodecAssumption == CodecPairs \subseteq CodecKinds \X CodecKinds

VARIABLES
    codecKind,    \* what each side is; fixed
    codecState,   \* CodecTransport of each side
    codecFrame,   \* the framing the flush loop has decided on, the frame not being written yet
    codecAir,     \* the framings of the frames under way from each side
    codecAsked    \* the exit has something to say

codecVars == <<codecKind, codecState, codecFrame, codecAir, codecAsked>>

Speakers == {"client", "exit"}
Across(s) == IF s = "client" THEN "exit" ELSE "client"
Framings == {"batched", "legacy"}

\* preferred and batchNow name a framing; peerBatch, peerLegacy and heard are as in the code.
\* clock: firstSend is not set, is set, or the time to switch has come.
CodecState ==
    [batchNow : Framings, peerBatch : BOOLEAN, peerLegacy : BOOLEAN, heard : BOOLEAN,
     clock : {"unset", "set", "due"}]

CodecTypeOK ==
    /\ codecKind \in [Speakers -> CodecKinds] /\ codecState \in [Speakers -> CodecState]
    /\ codecFrame \in [Speakers -> Framings \cup {"none"}] /\ codecAir \in [Speakers -> SUBSET Framings]
    /\ codecAsked \in BOOLEAN

CodecInit ==
    /\ \E pair \in CodecPairs : codecKind = [s \in Speakers |-> IF s = "client" THEN pair[1] ELSE pair[2]]
    /\ \E preferred \in [Speakers -> Framings] :
         codecState = [s \in Speakers |-> [batchNow |-> preferred[s], peerBatch |-> FALSE, peerLegacy |-> FALSE,
                                       heard |-> FALSE, clock |-> "unset"]]
    /\ codecFrame = [s \in Speakers |-> "none"] /\ codecAir = [s \in Speakers |-> {}] /\ codecAsked = FALSE
----------------------------------------------------------------------------
(* sendBatch *)

Other(framing) == IF framing = "batched" THEN "legacy" ELSE "batched"

\* The client changes when the time has come, as long as it has heard nothing.
MayFallBack(s) == s = "client" /\ ~codecState[s].heard
\* Mutant: there is no fallback, the peer must speak first.
NeverFallsBack(s) == FALSE
FallsBack(s) == MayFallBack(s)

KnownPeer(s) == codecState[s].peerBatch \/ codecState[s].peerLegacy
Switched(s) ==
    IF ~KnownPeer(s) /\ FallsBack(s)
    THEN [codecState[s] EXCEPT !.batchNow = IF codecState[s].clock = "due" THEN Other(@) ELSE @,
                               !.clock = "set"]
    ELSE codecState[s]

\* What a batch frame of the peer settles, a legacy frame does not unsettle.
BatchWins(st) == IF st.peerBatch THEN "batched" ELSE IF st.peerLegacy THEN "legacy" ELSE st.batchNow
\* Mutant: a side stays with what it prefers until it falls back.
KeepsToItself(st) == st.batchNow
Follows(st) == BatchWins(st)

CodecDecides(s) ==
    /\ codecFrame[s] = "none" /\ (s = "exit" => codecAsked)
    /\ IF codecKind[s] = "codec"
       THEN /\ codecState' = [codecState EXCEPT ![s] = Switched(s)]
            /\ codecFrame' = [codecFrame EXCEPT ![s] = Follows(Switched(s))]
       ELSE /\ codecFrame' = [codecFrame EXCEPT ![s] = codecKind[s]]
            /\ UNCHANGED codecState
    /\ UNCHANGED <<codecKind, codecAir, codecAsked>>

\* codecFirstFallback or codecFallbackEvery has passed.
CodecClock ==
    /\ codecState["client"].clock = "set" /\ ~codecState["client"].heard
    /\ codecState' = [codecState EXCEPT !["client"].clock = "due"]
    /\ UNCHANGED <<codecKind, codecFrame, codecAir, codecAsked>>

\* The batch is gathered, or it was one packet; the frame is written.
CodecWrites(s) ==
    /\ codecFrame[s] # "none"
    /\ codecAir' = [codecAir EXCEPT ![s] = @ \cup {codecFrame[s]}]
    /\ codecFrame' = [codecFrame EXCEPT ![s] = "none"]
    /\ UNCHANGED <<codecKind, codecState, codecAsked>>

CodecLoses ==
    /\ \E s \in Speakers : \E f \in codecAir[s] : codecAir' = [codecAir EXCEPT ![s] = @ \ {f}]
    /\ UNCHANGED <<codecKind, codecState, codecFrame, codecAsked>>

\* receive: a codec takes every frame, another peer those of its own framing.
Decodes(s, framing) == codecKind[s] \in {"codec", framing}
CodecReceives(s, framing) ==
    /\ framing \in codecAir[Across(s)]
    /\ codecAir' = [codecAir EXCEPT ![Across(s)] = @ \ {framing}]
    /\ codecState' =
         IF codecKind[s] # "codec" THEN codecState
         ELSE [codecState EXCEPT ![s].peerBatch = @ \/ framing = "batched",
                                 ![s].peerLegacy = @ \/ framing = "legacy", ![s].heard = TRUE]
    /\ codecAsked' = (codecAsked \/ (s = "exit" /\ Decodes(s, framing)))
    /\ UNCHANGED <<codecKind, codecFrame>>
----------------------------------------------------------------------------
CodecSends(s) == CodecDecides(s) \/ CodecWrites(s)
CodecNext ==
    \/ CodecClock \/ CodecLoses
    \/ \E s \in Speakers : CodecSends(s) \/ \E f \in Framings : CodecReceives(s, f)

\* The client has packets again and again, and so has the exit once it was asked; the clock
\* goes on; of the frames of one framing that keep being sent not all are lost.
CodecFairness ==
    /\ WF_codecVars(CodecClock)
    /\ \A s \in Speakers :
         /\ WF_codecVars(CodecSends(s))
         /\ \A f \in Framings : SF_codecVars(CodecReceives(s, f))
CodecSpec == CodecInit /\ [][CodecNext]_codecVars /\ CodecFairness
----------------------------------------------------------------------------
\* Whatever the two sides speak and prefer, as long as one of them follows the other or both
\* speak the same, they end on framings the other side decodes (CodecTransport: "a peer that
\* decodes only one framing still gets through").
BothUnderstood ==
    codecAsked /\ \A s \in Speakers : codecFrame[s] # "none" => Decodes(Across(s), codecFrame[s])
Understood == <>[]BothUnderstood

\* What the comment on CodecTransport says: "updated peers converge on batching".
UpdatedBatch ==
    codecKind = [s \in Speakers |-> "codec"] => <>[](\A s \in Speakers : codecFrame[s] # "legacy")
=============================================================================
