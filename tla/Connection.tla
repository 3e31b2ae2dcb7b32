----------------------------- MODULE Connection -----------------------------
(***************************************************************************)
(* An owner's YouTube channel: the consent (services/publisher/oauth.py    *)
(* and the callback of apps/api/routes/youtube_connections.py), the row    *)
(* and the sealed credential of src/vidgen/db/publication_repository.py,   *)
(* the tokens workers mint from it, and the disconnection.  What a handler *)
(* does between two requests to Google is one step; rows are read once and *)
(* only what a handler changes of what it read is written.                 *)
(***************************************************************************)
EXTENDS Naturals, FiniteSets

CONSTANTS
  Consents,       \* authorization attempts, each with its one-time state
  Callbacks,      \* callbacks of the browser
  Minters,        \* workers that need an access token
  Disconnects,    \* requests to disconnect
  MaxKey          \* bound: versions of the sealing key

ASSUME ConnectionAssumption == MaxKey \in Nat \ {0}

VARIABLES
  consent,     \* the state rows
  channel,     \* the connection row: its status and its credential_present
  secret,      \* the secret row
  grants,      \* the grants that are good at Google
  key,         \* the active version of the sealing key
  callback, minter, disconnect

connectionVars == <<consent, channel, secret, grants, key, callback, minter, disconnect>>

\* The secret row: the grant its refresh token is of, the keys its two tokens were
\* sealed under (0 for no access token) and the one version it names.
NoSecret == [grant |-> "none", refreshKey |-> 0, accessKey |-> 0, version |-> 0]
NoChannel == [status |-> "none", present |-> FALSE]
NoCallback == [at |-> "none", of |-> "none"]
NoMinter == [at |-> "none", seen |-> "none", grant |-> "none"]

ConnectionInit ==
  /\ consent = [c \in Consents |-> "none"]
  /\ channel = NoChannel /\ secret = NoSecret /\ grants = {} /\ key = 1
  /\ callback = [b \in Callbacks |-> NoCallback]
  /\ minter = [m \in Minters |-> NoMinter]
  /\ disconnect = [d \in Disconnects |-> "none"]

-----------------------------------------------------------------------------
\* start: a state row; it expires while nobody comes back for it.
StartConsent(c) ==
  /\ consent[c] = "none"
  /\ consent' = [consent EXCEPT ![c] = "open"]
  /\ UNCHANGED <<channel, secret, grants, key, callback, minter, disconnect>>

ExpireConsent(c) ==
  /\ consent[c] = "open" /\ \A b \in Callbacks : callback[b].of # c
  /\ consent' = [consent EXCEPT ![c] = "expired"]
  /\ UNCHANGED <<channel, secret, grants, key, callback, minter, disconnect>>

\* consume_oauth_state: one conditional update, whose row stays locked until the
\* callback commits; a second callback of the state waits for it.
Claimable(c) == consent[c] = "open" /\ \A b \in Callbacks : callback[b].of # c

ClaimConsent(b, c) ==
  /\ callback[b].at = "none" /\ Claimable(c)
  /\ callback' = [callback EXCEPT ![b] = [at |-> "exchanging", of |-> c]]
  /\ UNCHANGED <<consent, channel, secret, grants, key, minter, disconnect>>

\* exchange_code, fetch_channel and upsert_connection: the connection is created or
\* reconnected and both tokens are sealed under the active key.
CompleteConsent(b) ==
  /\ callback[b].at = "exchanging"
  /\ LET c == callback[b].of IN
       /\ consent' = [consent EXCEPT ![c] = "used"]
       /\ grants' = grants \cup {c}
       /\ secret' = [grant |-> c, refreshKey |-> key, accessKey |-> key, version |-> key]
  /\ channel' = [status |-> "connected", present |-> TRUE]
  /\ callback' = [callback EXCEPT ![b] = NoCallback]
  /\ UNCHANGED <<key, minter, disconnect>>

\* A refusal of Google or of the grant's scopes is committed with the state used; a
\* callback that dies rolls back and leaves the state to be used again.
RefuseConsent(b, dies) ==
  /\ callback[b].at = "exchanging"
  /\ consent' = IF dies THEN consent ELSE [consent EXCEPT ![callback[b].of] = "used"]
  /\ callback' = [callback EXCEPT ![b] = NoCallback]
  /\ UNCHANGED <<channel, secret, grants, key, minter, disconnect>>

-----------------------------------------------------------------------------
\* Keyring.open: a ciphertext opens under the version its row names.
Opens(sealed) == sealed = secret.version

Mints(m, to) == minter' = [minter EXCEPT ![m] = to]

\* access_token_for, up to its request: no cached token is fresh.  One that is there
\* and does not open fails the worker before it asks.
BeginMint(m) ==
  /\ minter[m].at = "none" /\ channel.status \notin {"none", "revoked"}
  /\ secret # NoSecret /\ Opens(secret.refreshKey)
  /\ secret.accessKey # 0 => Opens(secret.accessKey)
  /\ Mints(m, [at |-> "minting", seen |-> channel.status, grant |-> secret.grant])
  /\ UNCHANGED <<consent, channel, secret, grants, key, callback, disconnect>>

\* store_access_token: the access token alone is sealed again.
Sealed == [secret EXCEPT !.accessKey = key]

\* Mutant: the credential is not looked for again before the token is stored.
Forgotten == FALSE

\* store_access_token reads the secret row again: none is left after a disconnection.
Gone == secret = NoSecret

\* The status a worker writes over whatever became of the connection meanwhile: it
\* compares with the one it read.
Marked(m, good) ==
  CASE ~good /\ minter[m].seen # "reauthorization" -> "reauthorization"
    [] good /\ minter[m].seen = "reauthorization"  -> "connected"
    [] OTHER                                       -> channel.status

\* The answer to the refresh and verify_channel: a token of the same channel or of
\* another one, or a grant that is good no more.
EndMint(m, moved) ==
  /\ minter[m].at = "minting"
  /\ Mints(m, NoMinter)
  /\ LET granted == minter[m].grant \in grants IN
       IF granted /\ Gone THEN UNCHANGED <<channel, secret>>
       ELSE /\ secret' = IF granted THEN Sealed ELSE secret
            /\ channel' = [channel EXCEPT !.status = Marked(m, granted /\ ~moved)]
  /\ UNCHANGED <<consent, grants, key, callback, disconnect>>

\* The worker dies, or Google does not answer.
LoseMint(m) ==
  /\ minter[m].at = "minting"
  /\ Mints(m, NoMinter)
  /\ UNCHANGED <<consent, channel, secret, grants, key, callback, disconnect>>

-----------------------------------------------------------------------------
\* disconnect: the stored grant is revoked at Google if it can be,
BeginDisconnect(d, reached) ==
  /\ disconnect[d] = "none" /\ channel.status # "none"
  /\ grants' = IF channel.present /\ secret # NoSecret /\ reached THEN grants \ {secret.grant} ELSE grants
  /\ disconnect' = [disconnect EXCEPT ![d] = "revoking"]
  /\ UNCHANGED <<consent, channel, secret, key, callback, minter>>

\* then the secret row that is there by now is deleted and the row marked.
EndDisconnect(d) ==
  /\ disconnect[d] = "revoking"
  /\ secret' = NoSecret
  /\ channel' = [status |-> "revoked", present |-> FALSE]
  /\ disconnect' = [disconnect EXCEPT ![d] = "done"]
  /\ UNCHANGED <<consent, grants, key, callback, minter>>

\* The owner withdraws the consent at Google; a deployment changes the key.
WithdrawGrant(c) ==
  /\ c \in grants
  /\ grants' = grants \ {c}
  /\ UNCHANGED <<consent, channel, secret, key, callback, minter, disconnect>>

ChangeKey ==
  /\ key < MaxKey
  /\ key' = key + 1
  /\ UNCHANGED <<consent, channel, secret, grants, callback, minter, disconnect>>

ConnectionNext ==
  \/ \E c \in Consents : StartConsent(c) \/ ExpireConsent(c) \/ WithdrawGrant(c)
  \/ \E b \in Callbacks :
       \/ \E c \in Consents : ClaimConsent(b, c)
       \/ CompleteConsent(b) \/ (\E dies \in BOOLEAN : RefuseConsent(b, dies))
  \/ \E m \in Minters : BeginMint(m) \/ (\E moved \in BOOLEAN : EndMint(m, moved)) \/ LoseMint(m)
  \/ \E d \in Disconnects : (\E reached \in BOOLEAN : BeginDisconnect(d, reached)) \/ EndDisconnect(d)
  \/ ChangeKey

-----------------------------------------------------------------------------
\* However consents, refreshes and disconnections overlap: a channel that is connected
\* has its credential, the refresh token opens under the version its row names whatever
\* keys came since, and an authorization is exchanged by one callback at a time.
CredentialKept ==
  /\ channel.status = "connected" => channel.present /\ secret # NoSecret
  /\ secret # NoSecret => Opens(secret.refreshKey)
  /\ \A b, d \in Callbacks : b # d /\ callback[b].of = callback[d].of => callback[b].of = "none"
=============================================================================
