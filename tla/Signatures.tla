------------------------------- MODULE Signatures -------------------------------
(***************************************************************************)
(* Transactions that several keys sign: the tracker of the web frontend    *)
(* and its hook useMultiSig(), and the helpers of both packages that       *)
(* combine signed copies of a transaction and weigh its signatures.        *)
(* A copy is the transaction it is of (1, or another one) and the keys     *)
(* whose signatures it carries; copies go from signer to signer outside.   *)
(* And the wallets that sign for the SDK: its four adapters, each asked     *)
(* for the key a write is from and then for the signature.                 *)
(***************************************************************************)
EXTENDS Naturals, SequencesExt, FiniteSetsExt

CONSTANTS Key,         \* the public keys given to the tracker
          Required,    \* requiredSignatures, and the account's threshold
          KeyHint,     \* the last four bytes of a key
          KeyWeight,   \* weights of the account's signers
          SubmitCall,  \* calls of submitWhenReady()
          MaxCopies,   \* bound: copies given to the tracker
          MaxSessions, \* bound: WalletConnect sessions
          MaxWalletTurns  \* bound: what happens in the wallets, and reloads

ASSUME SignaturesAssumption ==
    /\ IsFiniteSet(Key) /\ 0 \notin Key
    /\ Required \in 1..Cardinality(Key)
    /\ {MaxCopies, MaxSessions, MaxWalletTurns} \subseteq Nat
    /\ KeyWeight \in [Key -> Nat] /\ DOMAIN KeyHint = Key

VARIABLES
    entries,   \* each signer: pending, signed or declined, and the copy kept
    tally,     \* collectedCount and isReady
    submit,    \* each call of submitWhenReady(): step and envelope
    shownSig,  \* the hook: isSubmitting, txHash, error
    posted,    \* the transaction at the network: absent, pending, applied, failed, expired
    copies     \* copies given to the tracker so far

sigVars == <<entries, tally, submit, shownSig, posted, copies>>

Copy == [tx : {1, 2}, keys : SUBSET Key]
NoCopy == [tx |-> 0, keys |-> {}]

Collected(es) == Cardinality({k \in Key : es[k].status = "signed"})
recompute(es) == tally' = [collected |-> Collected(es), ready |-> Collected(es) >= Required]

\* combineSignatures(): signatures are added unless they are there already.
AddSignature(sigs, key) == IF key \in ToSet(sigs) THEN sigs ELSE Append(sigs, key)
Combined(given) ==
    FoldLeft(LAMBDA sigs, copy : FoldLeft(AddSignature, sigs, SetToSeq(copy.keys)),
             <<>>, SetToSeq(given))
Matching(given) == \A copy \in given : copy.tx = 1

\* computeSignatureWeight(): a signer counts if a signature has its hint.
Weight(sigs) ==
    LET hints == {KeyHint[k] : k \in ToSet(sigs)}
    IN  MapThenSumSet(LAMBDA k : IF KeyHint[k] \in hints THEN KeyWeight[k] ELSE 0, Key)
MeetsThreshold(weight) == weight >= Required

-----------------------------------------------------------------------------

\* Any copy may be given for any key: neither the transaction nor the signatures
\* are looked at.
AddCopy(key, copy) ==
    /\ copies < MaxCopies /\ copies' = copies + 1
    /\ entries' = [entries EXCEPT ![key] = [status |-> "signed", copy |-> copy]]
    /\ recompute(entries')
    /\ shownSig' = [shownSig EXCEPT !.error = FALSE]
    /\ UNCHANGED <<submit, posted>>

\* The copy that was given stays with the entry.
MarkDeclined(key) ==
    /\ entries[key].status # "declined"
    /\ entries' = [entries EXCEPT ![key].status = "declined"]
    /\ recompute(entries')
    /\ shownSig' = [shownSig EXCEPT !.error = FALSE]
    /\ UNCHANGED <<submit, posted, copies>>

Signed == {k \in Key : entries[k].status = "signed"}
GivenCopies == {entries[k].copy : k \in Signed}

\* The call ends with an error.
SubmitFails(c) ==
    /\ submit' = [submit EXCEPT ![c].step = "failed"]
    /\ shownSig' = [shownSig EXCEPT !.submitting = FALSE, !.error = TRUE]

SubmitWhenReady(c) ==
    /\ submit[c].step = "idle"
    /\ \/ /\ ~tally.ready
          /\ shownSig' = [shownSig EXCEPT !.error = TRUE]
          /\ UNCHANGED submit
       \/ /\ tally.ready /\ ~Matching(GivenCopies)
          /\ SubmitFails(c)
       \/ /\ tally.ready /\ Matching(GivenCopies)
          /\ submit' = [submit EXCEPT ![c] =
                [step |-> "send", sigs |-> Combined(GivenCopies), of |-> Signed,
                 held |-> UNION {copy.keys : copy \in GivenCopies}]]
          /\ shownSig' = [shownSig EXCEPT !.submitting = TRUE, !.error = FALSE]
    /\ UNCHANGED <<entries, tally, posted, copies>>

\* The network takes the transaction with enough valid signatures, each once; it
\* may be too busy, which is not an ERROR (external).
Accepted(sigs) ==
    /\ Len(sigs) = Cardinality(ToSet(sigs)) /\ Len(sigs) >= Required
    /\ posted \in {"absent", "pending"}
SendCombined(c) ==
    /\ submit[c].step = "send"
    /\ \/ /\ Accepted(submit[c].sigs)
          /\ posted' \in {"pending", posted}
          /\ submit' = [submit EXCEPT ![c].step = "poll"]
          /\ UNCHANGED shownSig
       \/ /\ ~Accepted(submit[c].sigs)
          /\ SubmitFails(c)
          /\ UNCHANGED posted
       \* the request rejects, whether it reached the node or not
       \/ /\ SubmitFails(c)
          /\ posted' \in {posted} \cup (IF Accepted(submit[c].sigs) THEN {"pending"} ELSE {})
    /\ UNCHANGED <<entries, tally, copies>>

\* pollForConfirmation(): 60 seconds; a transaction of this kind has 30 to live.  A
\* poll that rejects is the end.
Confirm(c) ==
    /\ submit[c].step = "poll"
    /\ \/ /\ posted = "applied"
          /\ submit' = [submit EXCEPT ![c].step = "done"]
          /\ shownSig' = [shownSig EXCEPT !.submitting = FALSE, !.hash = TRUE]
       \/ SubmitFails(c)
    /\ UNCHANGED <<entries, tally, posted, copies>>

Posted ==
    /\ \/ posted = "pending" /\ posted' \in {"applied", "failed"}
       \/ posted \in {"absent", "pending"} /\ posted' = "expired"
    /\ UNCHANGED <<entries, tally, submit, shownSig, copies>>

-----------------------------------------------------------------------------

SigInit ==
    /\ entries = [k \in Key |-> [status |-> "pending", copy |-> NoCopy]]
    /\ tally = [collected |-> 0, ready |-> FALSE]
    /\ submit = [c \in SubmitCall |-> [step |-> "idle", sigs |-> <<>>, of |-> {}, held |-> {}]]
    /\ shownSig = [submitting |-> FALSE, hash |-> FALSE, error |-> FALSE]
    /\ posted = "absent" /\ copies = 0

SigNext ==
    \/ \E key \in Key : MarkDeclined(key) \/ \E copy \in Copy : AddCopy(key, copy)
    \/ \E c \in SubmitCall : SubmitWhenReady(c) \/ SendCombined(c) \/ Confirm(c)
    \/ Posted

-----------------------------------------------------------------------------

\* What is sent carries every signature of the copies that were given, once, and
\* was asked of enough signers; it weighs what its signers weigh if no two keys
\* share a hint.
EnvelopeIsWhole ==
    \A c \in SubmitCall : submit[c].step \in {"send", "poll", "done"} =>
        LET sigs == submit[c].sigs IN
        /\ ToSet(sigs) = submit[c].held
        /\ Len(sigs) = Cardinality(submit[c].held)
        /\ Cardinality(submit[c].of) >= Required
        /\ IsInjective(KeyHint) =>
              /\ Weight(sigs) = MapThenSumSet(LAMBDA k : KeyWeight[k], ToSet(sigs))
              /\ (\A k \in Key : KeyWeight[k] >= 1) /\ Len(sigs) >= Required
                    => MeetsThreshold(Weight(sigs))

\* A transaction hash is shown only when the transaction was applied, which takes
\* as many keys as are required.
HashMeansSigned ==
    shownSig.hash =>
        /\ posted = "applied"
        /\ \E c \in SubmitCall :
              submit[c].step = "done" /\ Cardinality(ToSet(submit[c].sigs)) >= Required

-----------------------------------------------------------------------------
(* The SDK's wallets *)

VARIABLES
    signer,    \* adapter, the network of the SDK, Albedo's cache
    extension, \* the extension's account and network, and whether the site is allowed
    wc,        \* WalletConnect: session kept, sessions that live, offers, those ended
    walletAsks,     \* each call: step, the key it is from, who signed for which network
    walletTurns

signerVars == <<signer, extension, wc, walletAsks, walletTurns>>

NoKey == 0
Networks == {"public", "testnet", "futurenet"}
NoRequestYet == [step |-> "idle", source |-> NoKey, by |-> NoKey, net |-> "none", moved |-> FALSE]

\* createPreferredWalletAdapter(): the first that is installed.
Preferred(installed) ==
    CASE "freighter" \in installed -> "freighter"
      [] "freighter" \notin installed /\ "albedo" \in installed -> "albedo"
      [] installed = {"xbull"} -> "xbull"
      [] installed = {} -> "none"

\* All but Freighter's adapter know two networks.
Resolved(net) == IF net = "public" THEN "public" ELSE "testnet"

InSession == wc.session # NoKey
Alive == wc.session \in wc.live

\* A call that began is told that what it was from may have changed.
AccountMoves == walletAsks' = [c \in SubmitCall |-> [walletAsks[c] EXCEPT !.moved = TRUE]]
KeyIs(c, key) ==
    walletAsks' = [walletAsks EXCEPT ![c] = [NoRequestYet EXCEPT !.step = "built", !.source = key]]
SignedBy(c, key, net) ==
    walletAsks' = [walletAsks EXCEPT ![c].step = "signed", ![c].by = key, ![c].net = net]
AskedInVain(c) == walletAsks' = [walletAsks EXCEPT ![c].step = "failed"]

\* getPublicKey() of each adapter; a user may refuse, close the popup or lock the wallet.
FreighterTells(c) ==
    \/ /\ extension' = [extension EXCEPT !.allowed = TRUE]
       /\ KeyIs(c, extension.account)
       /\ UNCHANGED signer
    \/ AskedInVain(c) /\ UNCHANGED <<signer, extension>>
XBullTells(c) ==
    /\ KeyIs(c, extension.account) \/ AskedInVain(c)
    /\ UNCHANGED <<signer, extension>>
\* The first key that Albedo was told stays, whatever account its popup is used with.
AlbedoTells(c) ==
    /\ \/ /\ signer.cache # NoKey
          /\ KeyIs(c, signer.cache) /\ UNCHANGED signer
       \/ /\ signer.cache = NoKey
          /\ \/ \E key \in Key :
                   KeyIs(c, key) /\ signer' = [signer EXCEPT !.cache = key]
             \/ AskedInVain(c) /\ UNCHANGED signer
    /\ UNCHANGED extension
SessionTells(c) ==
    /\ IF InSession THEN KeyIs(c, wc.keyOf[wc.session]) ELSE AskedInVain(c)
    /\ UNCHANGED <<signer, extension>>

AskKey(c) ==
    /\ walletAsks[c].step = "idle"
    /\ \/ signer.adapter = "freighter" /\ FreighterTells(c)
       \/ signer.adapter = "xbull" /\ XBullTells(c)
       \/ signer.adapter = "albedo" /\ AlbedoTells(c)
       \/ signer.adapter = "walletConnect" /\ SessionTells(c)
    /\ UNCHANGED <<wc, walletTurns>>

\* signTransaction() of each adapter: nobody tells the wallet which account is to sign.
FreighterSigns(c) ==
    \/ /\ extension.network = signer.expected
       /\ SignedBy(c, extension.account, signer.expected)
    \/ AskedInVain(c)
XBullSigns(c) == SignedBy(c, extension.account, Resolved(signer.expected)) \/ AskedInVain(c)
AlbedoSigns(c) ==
    (\E key \in Key : SignedBy(c, key, Resolved(signer.expected))) \/ AskedInVain(c)
SessionSigns(c) ==
    \/ /\ InSession /\ Alive
       /\ SignedBy(c, wc.keyOf[wc.session], Resolved(signer.expected))
    \/ AskedInVain(c)

AskSignature(c) ==
    /\ walletAsks[c].step = "built"
    /\ \/ signer.adapter = "freighter" /\ FreighterSigns(c)
       \/ signer.adapter = "xbull" /\ XBullSigns(c)
       \/ signer.adapter = "albedo" /\ AlbedoSigns(c)
       \/ signer.adapter = "walletConnect" /\ SessionSigns(c)
    /\ UNCHANGED <<signer, extension, wc, walletTurns>>

\* connect() gives an offer; approval() waits for the user, who may take any time,
\* and keeps the new session whatever was there.
connect ==
    /\ signer.adapter = "walletConnect"
    /\ Len(wc.keyOf) + wc.offers < MaxSessions
    /\ wc' = [wc EXCEPT !.offers = @ + 1]
    /\ UNCHANGED <<signer, extension, walletAsks, walletTurns>>
approval ==
    /\ wc.offers > 0
    /\ \E key \in Key :
          LET id == Len(wc.keyOf) + 1 IN
          wc' = [wc EXCEPT !.offers = @ - 1, !.keyOf = Append(@, key),
                           !.live = @ \union {id}, !.session = id]
    /\ AccountMoves
    /\ UNCHANGED <<signer, extension, walletTurns>>

\* disconnect(): the relay is asked; afterwards no session is kept, whether it did
\* what was asked or not, and whichever session was taken up meanwhile.
disconnect(c) ==
    /\ walletAsks[c].step = "idle" /\ InSession
    /\ walletAsks' = [walletAsks EXCEPT ![c] =
                 [NoRequestYet EXCEPT !.step = "ending", !.source = wc.session]]
    /\ UNCHANGED <<signer, extension, wc, walletTurns>>
DisconnectEnds(c) ==
    /\ walletAsks[c].step = "ending"
    /\ LET id == walletAsks[c].source IN
       wc' \in {[wc EXCEPT !.session = NoKey],
               [wc EXCEPT !.session = NoKey, !.live = @ \ {id}, !.ended = @ \union {id}]}
    /\ walletAsks' = [walletAsks EXCEPT ![c] = NoRequestYet]
    /\ UNCHANGED <<signer, extension, walletTurns>>

\* A new page: the constructor takes up the last session the client has; they are
\* numbered in the order in which they were approved.
Restored(live) == IF live = {} THEN NoKey ELSE Max(live)
NewPage ==
    /\ wc' = [wc EXCEPT !.session = Restored(wc.live), !.offers = 0]
    /\ signer' = [signer EXCEPT !.cache = NoKey]
    /\ walletAsks' = [c \in SubmitCall |-> NoRequestYet]
    /\ UNCHANGED extension

\* The user's doing in the wallet itself (external): the adapters hear of none.
InTheWallet ==
    /\ \/ /\ signer.adapter \in {"freighter", "xbull"}
          /\ \E key \in Key, net \in Networks :
                extension' = [extension EXCEPT !.account = key, !.network = net]
          /\ UNCHANGED wc
       \/ \E id \in wc.live :
             wc' = [wc EXCEPT !.live = @ \ {id}] /\ UNCHANGED extension
    /\ AccountMoves
    /\ UNCHANGED signer

SignerInit ==
    /\ \E installed \in SUBSET {"freighter", "albedo", "xbull"}, net \in Networks :
          \E adapter \in {Preferred(installed), "walletConnect"} :
             signer = [adapter |-> adapter, expected |-> net, cache |-> NoKey]
    /\ extension = [account |-> CHOOSE key \in Key : TRUE, network |-> "testnet",
                    allowed |-> FALSE]
    /\ wc = [session |-> NoKey, keyOf |-> <<>>, live |-> {}, offers |-> 0, ended |-> {}]
    /\ walletAsks = [c \in SubmitCall |-> NoRequestYet]
    /\ walletTurns = 0

SignerNext ==
    \/ \E c \in SubmitCall : AskKey(c) \/ AskSignature(c) \/ disconnect(c) \/ DisconnectEnds(c)
    \/ connect \/ approval
    \/ /\ walletTurns < MaxWalletTurns /\ walletTurns' = walletTurns + 1
       /\ InTheWallet \/ NewPage

-----------------------------------------------------------------------------

\* A write is signed by the account it is from, unless that changed in the wallet
\* between the two calls (Albedo's user picks an account each time), and for the
\* network of the SDK, which all but Freighter take for testnet if they do not know it.
SignedAsAsked ==
    \A c \in SubmitCall : walletAsks[c].step = "signed" =>
        /\ walletAsks[c].by = walletAsks[c].source \/ walletAsks[c].moved \/ signer.adapter = "albedo"
        /\ \/ walletAsks[c].net = signer.expected
           \/ signer.expected = "futurenet" /\ signer.adapter # "freighter"

\* A session that the application ended is not in use again, whatever call or
\* reload comes after; Albedo tells one key as long as the page lives.
SessionsEnd ==
    /\ wc.session \notin wc.ended
    /\ signer.cache # NoKey =>
          \A c \in SubmitCall : walletAsks[c].step = "built" => walletAsks[c].source = signer.cache

\* Signatures collected and asked for are for the transaction and the account meant
\* (multisig.ts, the wallet adapters).
SignaturesAreSound == EnvelopeIsWhole /\ HashMeansSigned /\ SignedAsAsked /\ SessionsEnd
=============================================================================
