--------------------------- MODULE WebhookManager -----------------------------
(***************************************************************************)
(* The webhook manager of pkg/webhookmanager: it mints the certificate of  *)
(* the webhook server, and writes the CA bundle of SPIRE server into the   *)
(* ValidatingWebhookConfiguration, beside the rotation of authorities in   *)
(* the server, other writers of the configuration and the informer.        *)
(*                                                                         *)
(* There is no clock: a tick lowers the timers and the time left to the    *)
(* certificate.  The loop answers within a tick, the informer too.         *)
(***************************************************************************)
EXTENDS Integers

CONSTANTS
    Absent,         \* no configuration, no certificate
    Written,        \* the configurations others write; "" is no service
    Authorities,    \* X.509 authorities of SPIRE server, by age
    Hour,           \* in ticks
    Lifetimes,      \* what the server grants when asked for a day
    SVIDMin, BundleMin, WebhookMin, MaxBackoff,   \* the timers, in ticks
    MaxOutage,      \* bound on an outage, in ticks
    MaxChanges,     \* bound on the changes by others
    MaxFaults       \* bound on failed calls to the API server and on crashes

\* Everything the configuration may ever be.
Names == UNION {DOMAIN cfg : cfg \in Written}
Services == UNION {{cfg[w].service : w \in DOMAIN cfg} : cfg \in Written}
Webhooks == [service : Services, ca : SUBSET Authorities]
Configs == UNION {[names -> Webhooks] : names \in SUBSET Names}

ASSUME ConfigAssumption == Written \subseteq Configs /\ Absent \notin Configs

ASSUME WebhookAssumption ==
    /\ {SVIDMin, BundleMin, WebhookMin, MaxBackoff, Hour} \subseteq Nat \ {0}
    /\ Lifetimes \subseteq 1..24 * Hour
    /\ Authorities \subseteq Nat /\ Authorities # {}
    /\ {MaxOutage, MaxChanges, MaxFaults} \subseteq Nat

VARIABLES
    pc,             \* a step of Init, or "run"
    config,         \* API server: the webhook configuration
    store,          \* the informer's copy of it
    notified,       \* webhookChangedCh holds a value
    authorities,    \* SPIRE server: its bundle
    active,         \* the authority it signs with
    outage,         \* ticks no key pair can be had; -1 once it was so
    caBundle, cert, \* the state of the Manager
    svidTimer, bundleTimer, webhookTimer,
    call,           \* the call that waits for the server, and the names it asks for
    patched,        \* the last step sent a patch
    gone,           \* history: no configuration at some time since the last mint
    changes, faults

vars == <<pc, config, store, notified, authorities, active, outage, caBundle, cert,
          svidTimer, bundleTimer, webhookTimer, call, patched, gone, changes, faults>>
timers == <<svidTimer, bundleTimer, webhookTimer>>
server == <<authorities, active>>
bounds == <<changes, faults>>

NoCall == [kind |-> "none", names |-> {}]

-----------------------------------------------------------------------------
(* The rules.                                                              *)

Day == 24 * Hour
Week == 7 * Day

\* Mutant: a certificate is left alone until it runs out.
expiresLate(lifetime, expiresIn) == expiresIn < 0

\* How long before its end a certificate expires soon.
Margin(lifetime) ==
    CASE lifetime > 30 * Day -> Week
      [] lifetime > Week /\ lifetime <= 30 * Day -> Week \div 2
      [] lifetime > Day /\ lifetime <= Week -> Day \div 2
      [] lifetime > Hour /\ lifetime <= Day -> Hour \div 2
      [] lifetime <= Hour -> lifetime \div 2

expiresSoon(lifetime, expiresIn) == expiresIn < Margin(lifetime)

\* The margin covers a period and the longest back-off of the SVID timer, and
\* an outage that begins before the first and ends after the last attempt.
ASSUME MarginAssumption ==
    \A l \in Lifetimes : SVIDMin + MaxBackoff + MaxOutage - 1 <= Margin(l)

webhookDNSNames(cfg) == {cfg[w].service : w \in DOMAIN cfg} \ {""}

\* Whether mintX509SVIDIfNeeded mints; there is a certificate after Init.
\* "has expired" never is the reason, as an expired certificate expires soon.
MintNeeded ==
    /\ store # Absent
    /\ \/ expiresSoon(cert.lifetime, cert.expiresIn)
       \/ webhookDNSNames(store) # cert.names

\* Mutant: the bundle is written whether it differs or not.
staleAlways(ca) == IF store = Absent THEN {} ELSE DOMAIN store

\* Mutant: a webhook that is up to date ends the search for others.
staleBefore(ca) ==
    IF store = Absent \/ \E w \in DOMAIN store : store[w].ca = ca THEN {} ELSE DOMAIN store

\* The webhooks of the store whose bundle updateWebhookConfigIfNeeded modifies.
stale(ca) == IF store = Absent THEN {} ELSE {w \in DOMAIN store : store[w].ca # ca}

\* A timer and the duration of its next back-off.
Lesser(a, b) == IF a < b THEN a ELSE b
Timer(d) == [left |-> d, next |-> Lesser(2 * d, MaxBackoff)]

BackOff(timer) == Timer(timer.next)

Off == [left |-> 0, next |-> 0]

-----------------------------------------------------------------------------
Init ==
    /\ pc = "refresh"
    /\ config \in Written
    /\ store = Absent
    /\ notified = FALSE
    /\ active \in {a \in Authorities : \A other \in Authorities : a <= other}
    /\ authorities = {active}
    /\ outage = 0
    /\ caBundle = {}
    /\ cert = Absent
    /\ svidTimer = Off
    /\ bundleTimer = Off
    /\ webhookTimer = Off
    /\ call = NoCall
    /\ patched = FALSE
    /\ gone = FALSE
    /\ changes = 0
    /\ faults = 0

\* The file is written before the manager remembers the certificate.  In an outage
\* the server does not sign, or the file cannot be written.
Mint(names) ==
    /\ outage <= 0
    /\ \E l \in Lifetimes :
          cert' = [lifetime |-> l, expiresIn |-> l, names |-> names, signer |-> active]
    /\ outage' = 0
    /\ gone' = (config = Absent)

\* updateWebhookConfigIfNeeded.  The patch sets the bundle of the stale webhooks
\* by name; the API server rejects it when one of them is gone.
PatchFits(ca) == config # Absent /\ stale(ca) \subseteq DOMAIN config

\* Mutant: the whole configuration is written back as the store has it.
UpdateWhole(ca) ==
    /\ PatchFits(ca)
    /\ config' = IF stale(ca) = {} THEN config
                 ELSE [w \in DOMAIN store |-> [store[w] EXCEPT !.ca = ca]]
    /\ patched' = (stale(ca) # {})
    /\ faults' = faults

Update(ca) ==
    /\ stale(ca) = {} \/ PatchFits(ca)
    /\ config' = IF stale(ca) = {} THEN config
                 ELSE [w \in DOMAIN config |->
                         IF w \in stale(ca) THEN [config[w] EXCEPT !.ca = ca] ELSE config[w]]
    /\ patched' = (stale(ca) # {})
    /\ faults' = faults

UpdateFails(ca) ==
    /\ stale(ca) # {}
    /\ \/ ~PatchFits(ca) /\ faults' = faults
       \/ PatchFits(ca) /\ faults < MaxFaults /\ faults' = faults + 1
    /\ config' = config
    /\ patched' = TRUE

-----------------------------------------------------------------------------
(* Manager.Init: an error ends the process, which is started again.        *)

InitRefresh ==
    /\ pc = "refresh"
    /\ outage <= 0
    /\ caBundle' = authorities
    /\ pc' = "get"
    /\ patched' = FALSE
    /\ UNCHANGED <<call, config, store, notified, server, outage, cert, timers, gone, bounds>>

InitGet ==
    /\ pc = "get"
    /\ config # Absent
    /\ store' = config
    /\ pc' = "mint"
    /\ patched' = FALSE
    /\ UNCHANGED <<call, config, notified, server, outage, caBundle, cert, timers, gone, bounds>>

InitMint ==
    /\ pc = "mint"
    /\ Mint(webhookDNSNames(store))
    /\ pc' = "patch"
    /\ patched' = FALSE
    /\ UNCHANGED <<call, config, store, notified, server, caBundle, timers, bounds>>

\* Start makes a new store and the timers.
InitPatch ==
    /\ pc = "patch"
    /\ Update(caBundle)
    /\ pc' = "run"
    /\ store' = Absent
    /\ notified' = FALSE
    /\ svidTimer' = Timer(SVIDMin)
    /\ bundleTimer' = Timer(BundleMin)
    /\ webhookTimer' = Timer(WebhookMin)
    /\ UNCHANGED <<call, server, outage, caBundle, cert, gone, changes>>

Restarted ==
    /\ pc' = "refresh"
    /\ store' = Absent
    /\ notified' = FALSE
    /\ caBundle' = {}
    /\ cert' = Absent
    /\ svidTimer' = Off
    /\ bundleTimer' = Off
    /\ webhookTimer' = Off
    /\ call' = NoCall
    /\ patched' = FALSE
    /\ UNCHANGED <<config, server, outage, gone, changes>>

\* Init fails for want of the server or of the configuration.
InitFails ==
    /\ \/ pc = "get" /\ config = Absent
       \/ pc = "mint" /\ outage > 0
       \/ pc = "patch" /\ stale(caBundle) # {} /\ ~PatchFits(caBundle)
    /\ faults' = faults
    /\ Restarted

Crash ==
    /\ pc # "refresh"
    /\ faults < MaxFaults
    /\ faults' = faults + 1
    /\ Restarted

-----------------------------------------------------------------------------
(* The loop of Start.  In an outage minting fails, or its call waits for   *)
(* the server and keeps the loop from the other cases; the bundle may      *)
(* still be had, when it is the file that cannot be written.               *)

Ready == pc = "run" /\ call = NoCall

SVIDTimerMints ==
    /\ Ready
    /\ svidTimer.left = 0
    /\ MintNeeded
    /\ Mint(webhookDNSNames(store))
    /\ svidTimer' = Timer(SVIDMin)
    /\ patched' = FALSE
    /\ UNCHANGED <<call, pc, config, store, notified, server, caBundle, bundleTimer, webhookTimer, bounds>>

SVIDTimerIdles ==
    /\ Ready
    /\ svidTimer.left = 0
    /\ ~MintNeeded
    /\ svidTimer' = Timer(SVIDMin)
    /\ patched' = FALSE
    /\ UNCHANGED <<call, pc, config, store, notified, server, outage, caBundle, cert, gone,
                   bundleTimer, webhookTimer, bounds>>

SVIDTimerFails ==
    /\ Ready
    /\ svidTimer.left = 0
    /\ MintNeeded
    /\ outage > 0
    /\ svidTimer' = BackOff(svidTimer)
    /\ patched' = FALSE
    /\ UNCHANGED <<call, pc, config, store, notified, server, outage, caBundle, cert, gone,
                   bundleTimer, webhookTimer, bounds>>

\* The names were read before the call.
MintWaits ==
    /\ Ready
    /\ svidTimer.left = 0
    /\ MintNeeded
    /\ outage > 0
    /\ call' = [kind |-> "mint", names |-> webhookDNSNames(store)]
    /\ patched' = FALSE
    /\ UNCHANGED <<pc, config, store, notified, server, outage, caBundle, cert, timers, gone, bounds>>

MintReturns ==
    /\ call.kind = "mint"
    /\ Mint(call.names)
    /\ call' = NoCall
    /\ svidTimer' = Timer(SVIDMin)
    /\ patched' = FALSE
    /\ UNCHANGED <<pc, config, store, notified, server, caBundle, bundleTimer, webhookTimer, bounds>>

RefreshWaits ==
    /\ Ready
    /\ bundleTimer.left = 0
    /\ outage > 0
    /\ call' = [NoCall EXCEPT !.kind = "refresh"]
    /\ patched' = FALSE
    /\ UNCHANGED <<pc, config, store, notified, server, outage, caBundle, cert, timers, gone, bounds>>

\* An error of the update is logged only.
Refreshed ==
    /\ caBundle' = authorities
    /\ bundleTimer' = Timer(BundleMin)
    /\ Update(authorities) \/ UpdateFails(authorities)
    /\ webhookTimer' = Timer(WebhookMin)
    /\ call' = NoCall
    /\ UNCHANGED <<pc, store, notified, server, outage, cert, svidTimer, gone, changes>>

RefreshReturns == call.kind = "refresh" /\ Refreshed

BundleTimerRefreshes == Ready /\ bundleTimer.left = 0 /\ Refreshed

BundleTimerFails ==
    /\ Ready
    /\ bundleTimer.left = 0
    /\ outage > 0
    /\ bundleTimer' = BackOff(bundleTimer)
    /\ patched' = FALSE
    /\ UNCHANGED <<call, pc, config, store, notified, server, outage, caBundle, cert, gone,
                   svidTimer, webhookTimer, bounds>>

WebhookTimerUpdates ==
    /\ Ready
    /\ webhookTimer.left = 0
    /\ \/ Update(caBundle) /\ webhookTimer' = Timer(WebhookMin)
       \/ UpdateFails(caBundle) /\ webhookTimer' = BackOff(webhookTimer)
    /\ UNCHANGED <<call, pc, store, notified, server, outage, caBundle, cert,
                   svidTimer, bundleTimer, gone, changes>>

WebhookChanged ==
    /\ Ready
    /\ notified
    /\ notified' = FALSE
    /\ Update(caBundle) \/ UpdateFails(caBundle)
    /\ webhookTimer' = Timer(WebhookMin)
    /\ UNCHANGED <<call, pc, store, server, outage, caBundle, cert,
                   svidTimer, bundleTimer, gone, changes>>

\* startInformer: the copy is brought up to date, then notify is called, which
\* leaves a value that is in the channel there.
InformerUpdates ==
    /\ pc = "run"
    /\ store # config
    /\ store' = config
    /\ notified' = TRUE
    /\ patched' = FALSE
    /\ UNCHANGED <<call, pc, config, server, outage, caBundle, cert, timers, gone, bounds>>

-----------------------------------------------------------------------------
(* Time, SPIRE server and the other writers of the configuration.          *)

Passed(timer) == [timer EXCEPT !.left = IF @ = 0 THEN 0 ELSE @ - 1]

\* The loop waits: for its timers, with nothing to be told of, or for the server.
Waiting ==
    /\ pc = "run"
    /\ store = config
    /\ \/ /\ call = NoCall
          /\ 0 \notin {svidTimer.left, bundleTimer.left, webhookTimer.left}
          /\ ~notified
       \/ call # NoCall /\ outage > 0

Tick ==
    /\ Waiting
    /\ svidTimer' = Passed(svidTimer)
    /\ bundleTimer' = Passed(bundleTimer)
    /\ webhookTimer' = Passed(webhookTimer)
    /\ cert' = [cert EXCEPT !.expiresIn = IF @ < 0 THEN @ ELSE @ - 1]
    /\ outage' = IF outage = 1 THEN -1 ELSE IF outage > 1 THEN outage - 1 ELSE outage
    /\ patched' = FALSE
    /\ UNCHANGED <<call, pc, config, store, notified, server, caBundle, gone, bounds>>

\* Time passes while Init waits for the server, or fails and is started again.
InitWaits ==
    /\ pc # "run"
    /\ outage > 0
    /\ outage' = IF outage = 1 THEN -1 ELSE outage - 1
    /\ patched' = FALSE
    /\ UNCHANGED <<call, pc, config, store, notified, server, caBundle, cert, timers, gone, bounds>>

\* The server goes down or the file cannot be written, once for every certificate.
GoDown ==
    /\ outage = 0
    /\ outage' \in 1..MaxOutage
    /\ patched' = FALSE
    /\ UNCHANGED <<call, pc, config, store, notified, server, caBundle, cert, timers, gone, bounds>>

\* SPIRE server prepares an authority, signs with it from some time on, and
\* drops the former one when nothing it signed is in use.
Prepare ==
    /\ \E a \in Authorities :
          /\ \A other \in authorities : a > other
          /\ authorities' = authorities \cup {a}
    /\ patched' = FALSE
    /\ UNCHANGED <<call, pc, config, store, notified, active, outage, caBundle, cert, timers, gone, bounds>>

Activate ==
    /\ active' \in {a \in authorities : a > active}
    /\ patched' = FALSE
    /\ UNCHANGED <<call, pc, config, store, notified, authorities, outage, caBundle, cert, timers, gone, bounds>>

Prune ==
    /\ \E a \in authorities :
          /\ a < active
          /\ cert # Absent => cert.signer # a
          /\ authorities' = authorities \ {a}
    /\ patched' = FALSE
    /\ UNCHANGED <<call, pc, config, store, notified, active, outage, caBundle, cert, timers, gone, bounds>>

\* Another writer applies the configuration, or deletes it.
ChangeConfig ==
    /\ changes < MaxChanges
    /\ changes' = changes + 1
    /\ config' \in Written \cup {Absent}
    /\ config' # config
    /\ gone' = (gone \/ config' = Absent)
    /\ patched' = FALSE
    /\ UNCHANGED <<call, pc, store, notified, server, outage, caBundle, cert, timers, faults>>

-----------------------------------------------------------------------------
Initialise == InitRefresh \/ InitGet \/ InitMint \/ InitPatch \/ InitFails \/ InitWaits

Loop ==
    \/ SVIDTimerMints \/ SVIDTimerIdles \/ SVIDTimerFails
    \/ BundleTimerRefreshes \/ BundleTimerFails
    \/ MintWaits \/ MintReturns \/ RefreshWaits \/ RefreshReturns
    \/ WebhookTimerUpdates \/ WebhookChanged

Next ==
    \/ InitRefresh \/ InitGet \/ InitMint \/ InitPatch \/ InitFails \/ InitWaits \/ Crash
    \/ SVIDTimerMints \/ SVIDTimerIdles \/ SVIDTimerFails
    \/ BundleTimerRefreshes \/ BundleTimerFails
    \/ MintWaits \/ MintReturns \/ RefreshWaits \/ RefreshReturns
    \/ WebhookTimerUpdates \/ WebhookChanged \/ InformerUpdates
    \/ Tick \/ GoDown \/ Prepare \/ Activate \/ Prune \/ ChangeConfig

Spec == Init /\ [][Next]_vars

\* The process is started again when it ends, the loop takes some case that is
\* ready, the informer's watch delivers, and time passes.
Fairness ==
    /\ WF_vars(Initialise)
    /\ WF_vars(Loop)
    /\ WF_vars(InformerUpdates)
    /\ WF_vars(Tick)

FairSpec == Spec /\ Fairness

-----------------------------------------------------------------------------
(* Properties.                                                             *)

\* The shape of the state.
TypeOK ==
    /\ pc \in {"refresh", "get", "mint", "patch", "run"}
    /\ config \in Configs \cup {Absent}
    /\ store \in Configs \cup {Absent}
    /\ authorities \subseteq Authorities
    /\ active \in authorities
    /\ caBundle \subseteq Authorities
    /\ outage \in -1..MaxOutage
    /\ notified \in BOOLEAN
    /\ patched \in BOOLEAN
    /\ gone \in BOOLEAN
    /\ changes \in 0..MaxChanges
    /\ faults \in 0..MaxFaults

\* The webhook server never presents a certificate that has run out: the margin
\* of expiresSoon covers an outage and the longest back-off of the SVID timer.
\* Without a configuration nothing is minted, and nothing calls the webhooks.
CertificateValid == pc = "run" /\ ~gone => cert.expiresIn >= 0

\* The API server trusts the webhook server and calls it by a name it has.
InService ==
    config # Absent =>
          /\ pc = "run"
          /\ \A w \in DOMAIN config : config[w].ca = authorities
          /\ cert.signer \in authorities
          /\ cert.names = webhookDNSNames(config)

\* When authorities, services and writers come to rest the webhooks are back in
\* service and stay so, over every renewal: no change is missed by the timers or
\* by the channel that drops a notification when it holds one.
BackInService == <>[]InService

\* The manager does not answer its own patches: a patch comes back as an event,
\* which finds nothing to modify, so patches cease.
PatchesCease == <>[]~patched

\* A patch changes nothing but bundles: a webhook that another writer has added,
\* removed or pointed to another service since the informer's copy stays as it is.
OthersWritesKept ==
    [][patched' => /\ (config' = Absent) = (config = Absent)
                   /\ config # Absent =>
                         /\ DOMAIN config' = DOMAIN config
                         /\ \A w \in DOMAIN config : config'[w].service = config[w].service]_vars

=============================================================================
