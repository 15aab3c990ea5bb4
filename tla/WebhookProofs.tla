---------------------------- MODULE WebhookProofs -----------------------------
(***************************************************************************)
(* The webhook manager renews its certificate in time for any lifetimes,   *)
(* timers and outages that fit the margin of expiresSoon, and its patches  *)
(* leave the writes of others alone.                                       *)
(***************************************************************************)
EXTENDS WebhookManager, TLAPS

\* The margin lies within the lifetime: a certificate that has expired expires
\* soon, so that "has expired" is never the reason for a mint, and one just
\* minted does not, so that it is not minted over and over (manager.go:203-208).
THEOREM MarginWithinLifetime ==
    ASSUME NEW l \in Nat
    PROVE  /\ 0 <= Margin(l) /\ Margin(l) <= l /\ Margin(l) \in Nat
           /\ ~expiresSoon(l, l)
           /\ \A e \in Int : e < 0 => expiresSoon(l, e)
<1>1. Hour \in Nat
  BY WebhookAssumption
<1>2. Margin(l) \in Nat /\ Margin(l) <= l
  <2>1. CASE l > 30 * Day
    BY <1>1, <2>1 DEF Margin, Day, Week
  <2>2. CASE l > Week /\ l <= 30 * Day
    BY <1>1, <2>2 DEF Margin, Day, Week
  <2>3. CASE l > Day /\ l <= Week
    BY <1>1, <2>3 DEF Margin, Day, Week
  <2>4. CASE l > Hour /\ l <= Day
    BY <1>1, <2>4 DEF Margin, Day, Week
  <2>5. CASE l <= Hour
    BY <1>1, <2>5 DEF Margin, Day, Week
  <2>6. QED
    BY <1>1, <2>1, <2>2, <2>3, <2>4, <2>5 DEF Day, Week
<1>3. QED
  BY <1>2 DEF expiresSoon

-----------------------------------------------------------------------------
(* The invariant.                                                          *)

\* Types, as far as the argument needs them.
Shapes ==
    /\ pc \in {"refresh", "get", "mint", "patch", "run"}
    /\ config \in Configs \cup {Absent}
    /\ store \in Configs \cup {Absent}
    /\ authorities \subseteq Authorities
    /\ caBundle \subseteq Authorities
    /\ outage \in Int /\ -1 <= outage /\ outage <= MaxOutage
    /\ svidTimer = [left |-> svidTimer.left, next |-> svidTimer.next]
    /\ svidTimer.left \in Nat
    /\ svidTimer.next \in Nat /\ svidTimer.next <= MaxBackoff
    /\ call # NoCall => pc = "run"
    /\ pc \in {"patch", "run"} =>
          /\ cert = [lifetime |-> cert.lifetime, expiresIn |-> cert.expiresIn,
                     names |-> cert.names, signer |-> cert.signer]
          /\ cert.lifetime \in Lifetimes
          /\ cert.expiresIn \in Int

\* The time from when the certificate expires soon to the end of its lifetime
\* that is left after a period of the SVID timer.
Spare == Margin(cert.lifetime) - SVIDMin

(***************************************************************************)
(* How near its end a certificate may be.  Before an outage the timer runs *)
(* out at most a period late.  In an outage every tick is one of the       *)
(* outage; an attempt that fails leaves a back-off, which the outage does  *)
(* not cover, but it leaves it before the last tick of the outage.         *)
(***************************************************************************)
Timely ==
    /\ outage = 0 => cert.expiresIn - svidTimer.left >= Spare
    /\ outage > 0 =>
          /\ cert.expiresIn >= Spare - (MaxOutage - outage)
          /\ svidTimer.left > 0 =>
                cert.expiresIn - svidTimer.left >= Spare - (MaxOutage - 1) - MaxBackoff
    /\ outage < 0 =>
          cert.expiresIn - svidTimer.left >= Spare - (MaxOutage - 1) - MaxBackoff

CertInv ==
    /\ Shapes
    /\ pc = "patch" => cert.expiresIn = cert.lifetime
    /\ pc \in {"patch", "run"} /\ ~gone => config # Absent
    /\ pc = "run" /\ ~gone /\ store = Absent => svidTimer.left > 0
    /\ pc = "run" /\ ~gone => Timely

-----------------------------------------------------------------------------
(* What the steps are made of.                                             *)

\* The numbers are numbers.
LEMMA Numbers ==
    /\ SVIDMin \in Nat /\ SVIDMin >= 1
    /\ MaxBackoff \in Nat /\ MaxBackoff >= 1
    /\ MaxOutage \in Nat
    /\ \A l \in Lifetimes : l \in Nat /\ Margin(l) \in Nat /\ Margin(l) <= l
<1>1. \A l \in Lifetimes : l \in Nat
  BY WebhookAssumption
<1>2. QED
  BY <1>1, WebhookAssumption, MarginWithinLifetime

\* A timer keeps its next back-off within the limit.
LEMMA TimerShape ==
    ASSUME NEW d \in Nat
    PROVE  /\ Timer(d) = [left |-> Timer(d).left, next |-> Timer(d).next]
           /\ Timer(d).left = d
           /\ Timer(d).next \in Nat /\ Timer(d).next <= MaxBackoff
BY Numbers DEF Timer, Lesser

\* updateWebhookConfigIfNeeded keeps the webhooks and their services.
LEMMA PatchKeeps ==
    ASSUME config \in Configs \cup {Absent}, NEW ca \in SUBSET Authorities,
           Update(ca) \/ UpdateFails(ca)
    PROVE  /\ config' \in Configs \cup {Absent}
           /\ (config' = Absent) = (config = Absent)
           /\ config # Absent =>
                 /\ DOMAIN config' = DOMAIN config
                 /\ \A w \in DOMAIN config : config'[w].service = config[w].service
<1>1. CASE config' = config
  BY <1>1
<1>2. CASE config' # config
  <2>1. /\ config # Absent
        /\ config' = [w \in DOMAIN config |->
                         IF w \in stale(ca) THEN [config[w] EXCEPT !.ca = ca] ELSE config[w]]
    BY <1>2 DEF Update, UpdateFails, PatchFits
  <2>2. PICK names \in SUBSET Names : config \in [names -> Webhooks]
    BY <2>1 DEF Configs
  <2>3. ASSUME NEW hook \in Webhooks
        PROVE  /\ [hook EXCEPT !.ca = ca] \in Webhooks
               /\ [hook EXCEPT !.ca = ca].service = hook.service
    BY <2>3 DEF Webhooks
  <2>4. ASSUME NEW w \in names
        PROVE  config'[w] \in Webhooks /\ config'[w].service = config[w].service
    BY <2>1, <2>2, <2>3, <2>4
  <2>5. config' \in [names -> Webhooks]
    <3>1. DOMAIN config' = names /\ config' = [w \in names |-> config'[w]]
      BY <2>1, <2>2
    <3>2. QED
      BY <2>4, <3>1
  <2>6. config' \in Configs
    BY <2>2, <2>5 DEF Configs
  <2>7. QED
    BY <2>1, <2>2, <2>4, <2>5, <2>6, ConfigAssumption
<1>3. QED
  BY <1>1, <1>2

\* A mint leaves a certificate with its whole lifetime.
LEMMA MintFresh ==
    ASSUME NEW names, Mint(names)
    PROVE  /\ cert' = [lifetime |-> cert'.lifetime, expiresIn |-> cert'.expiresIn,
                       names |-> cert'.names, signer |-> cert'.signer]
           /\ cert'.lifetime \in Lifetimes
           /\ cert'.expiresIn = cert'.lifetime
           /\ cert'.expiresIn \in Int
           /\ outage' = 0
           /\ ~gone' => config # Absent
<1>1. ~gone' => config # Absent
  BY Zenon DEF Mint
<1>2. PICK l \in Lifetimes :
          cert' = [lifetime |-> l, expiresIn |-> l, names |-> names, signer |-> active]
  BY DEF Mint
<1>3. outage' = 0
  BY DEF Mint
<1>4. QED
  BY <1>1, <1>2, <1>3, Numbers

-----------------------------------------------------------------------------
(* Every step keeps it.                                                    *)

\* The process starts with a timer that is off.
LEMMA CertInvInit == Init => CertInv
<1> SUFFICES ASSUME Init PROVE CertInv
  OBVIOUS
<1>1. /\ pc = "refresh" /\ config \in Configs /\ store = Absent /\ caBundle = {}
      /\ outage = 0 /\ svidTimer = Off /\ call = NoCall
  BY ConfigAssumption DEF Init
<1>2. authorities \subseteq Authorities
  BY DEF Init
<1>3. /\ svidTimer = [left |-> svidTimer.left, next |-> svidTimer.next]
      /\ svidTimer.left = 0 /\ svidTimer.next = 0
  BY <1>1 DEF Off
<1>4. Shapes
  BY <1>1, <1>2, <1>3, Numbers DEF Shapes
<1>5. QED
  BY <1>1, <1>4 DEF CertInv

\* A step that leaves the certificate, its timer and the server's health alone,
\* and does not make the configuration come or go, keeps the invariant.
LEMMA OthersKeep ==
    ASSUME CertInv,
           UNCHANGED <<pc, cert, svidTimer, outage, gone, store>>,
           config' \in Configs \cup {Absent}, (config' = Absent) = (config = Absent),
           authorities' \subseteq Authorities, caBundle' \subseteq Authorities,
           call' \in {call, NoCall} \/ pc = "run"
    PROVE  CertInv'
<1>1. Shapes'
  BY DEF CertInv, Shapes
<1>2. pc = "run" /\ ~gone => Timely'
  BY DEF CertInv, Timely, Spare
<1>3. QED
  BY <1>1, <1>2 DEF CertInv

\* Init up to the mint, and every restart.
LEMMA InitKeeps ==
    ASSUME CertInv, InitRefresh \/ InitGet \/ InitFails \/ Crash
    PROVE  CertInv'
<1>1. Shapes
  BY DEF CertInv
<1>2. CASE InitRefresh \/ InitGet
  <2>1. Shapes'
    BY <1>1, <1>2 DEF InitRefresh, InitGet, Shapes, timers, server
  <2>2. QED
    BY <1>2, <2>1 DEF InitRefresh, InitGet, CertInv
<1>3. CASE InitFails \/ Crash
  <2>1. /\ pc' = "refresh" /\ store' = Absent /\ caBundle' = {} /\ svidTimer' = Off
        /\ call' = NoCall /\ UNCHANGED <<config, authorities, outage>>
    BY <1>3 DEF InitFails, Crash, Restarted, server
  <2>2. /\ svidTimer' = [left |-> svidTimer'.left, next |-> svidTimer'.next]
        /\ svidTimer'.left = 0 /\ svidTimer'.next = 0
    BY <2>1 DEF Off
  <2>3. Shapes'
    BY <1>1, <2>1, <2>2, Numbers DEF Shapes
  <2>4. QED
    BY <2>1, <2>3 DEF CertInv
<1>4. QED
  BY <1>2, <1>3

\* The mint of Init.
LEMMA InitMintKeeps ==
    ASSUME CertInv, InitMint
    PROVE  CertInv'
<1>1. /\ pc = "mint" /\ pc' = "patch" /\ Mint(webhookDNSNames(store))
      /\ UNCHANGED <<call, config, store, authorities, caBundle, svidTimer>>
  BY DEF InitMint, server, timers
<1>2. Shapes'
  BY <1>1, MintFresh, Numbers DEF CertInv, Shapes
<1>3. QED
  BY <1>1, <1>2, MintFresh DEF CertInv

\* The loop starts with the certificate of Init.
LEMMA InitPatchKeeps ==
    ASSUME CertInv, InitPatch
    PROVE  CertInv'
<1>1. /\ pc = "patch" /\ pc' = "run" /\ Update(caBundle) /\ store' = Absent
      /\ svidTimer' = Timer(SVIDMin)
      /\ UNCHANGED <<call, authorities, outage, caBundle, cert, gone>>
  BY DEF InitPatch, server
<1>2. Shapes
  BY DEF CertInv
<1>3. config' \in Configs \cup {Absent} /\ (config' = Absent) = (config = Absent)
  <2>1. caBundle \in SUBSET Authorities /\ config \in Configs \cup {Absent}
    BY <1>2 DEF Shapes
  <2>2. QED
    BY <1>1, <2>1, PatchKeeps
<1>4. /\ svidTimer' = [left |-> svidTimer'.left, next |-> svidTimer'.next]
      /\ svidTimer'.left = SVIDMin /\ SVIDMin \in Nat /\ SVIDMin >= 1
      /\ svidTimer'.next \in Nat /\ svidTimer'.next <= MaxBackoff
  BY <1>1, TimerShape, Numbers
<1>5. Shapes'
  BY <1>1, <1>2, <1>3, <1>4 DEF Shapes
<1>6. /\ cert.lifetime \in Lifetimes /\ cert.expiresIn \in Int
      /\ cert.expiresIn >= Margin(cert.lifetime)
      /\ outage \in Int /\ outage <= MaxOutage
  BY <1>1, Numbers DEF CertInv, Shapes
<1>7. Timely'
  <2>1. /\ Margin(cert.lifetime) \in Nat /\ SVIDMin \in Nat /\ MaxOutage \in Nat
        /\ MaxBackoff \in Nat /\ MaxBackoff >= 1
    BY <1>6, Numbers
  <2>2. QED
    BY <1>1, <1>4, <1>6, <2>1 DEF Timely, Spare
<1>8. QED
  BY <1>1, <1>3, <1>4, <1>5, <1>7 DEF CertInv

\* A mint of the loop, at once or after the server has come back.
LEMMA LoopMintKeeps ==
    ASSUME CertInv, SVIDTimerMints \/ MintReturns
    PROVE  CertInv'
<1>1. /\ pc = "run" /\ pc' = "run" /\ \E names : Mint(names)
      /\ svidTimer' = Timer(SVIDMin)
      /\ call' = NoCall
      /\ UNCHANGED <<config, store, authorities, caBundle>>
  <2>1. call.kind = "mint" => call # NoCall
    BY DEF NoCall
  <2>2. QED
    BY <2>1 DEF SVIDTimerMints, MintReturns, Ready, server, CertInv, Shapes
<1>2. PICK names : Mint(names)
  BY <1>1
<1>3. /\ svidTimer' = [left |-> svidTimer'.left, next |-> svidTimer'.next]
      /\ svidTimer'.left = SVIDMin /\ SVIDMin \in Nat /\ SVIDMin >= 1
      /\ svidTimer'.next \in Nat /\ svidTimer'.next <= MaxBackoff
  BY <1>1, TimerShape, Numbers
<1>4. Shapes'
  BY <1>1, <1>2, <1>3, MintFresh, Numbers DEF CertInv, Shapes
<1>5. Timely'
  <2>1. /\ Margin(cert'.lifetime) \in Nat /\ cert'.lifetime \in Nat
        /\ Margin(cert'.lifetime) <= cert'.lifetime
        /\ cert'.expiresIn = cert'.lifetime
        /\ outage' = 0
    BY <1>2, MintFresh, Numbers
  <2>2. QED
    BY <1>3, <2>1 DEF Timely, Spare
<1>6. ~gone' => config' # Absent
  BY <1>1, <1>2, MintFresh
<1>7. QED
  BY <1>1, <1>3, <1>4, <1>5, <1>6 DEF CertInv

\* Nothing to mint when the timer runs out: the certificate does not expire soon.
LEMMA IdleKeeps ==
    ASSUME CertInv, SVIDTimerIdles
    PROVE  CertInv'
<1>1. /\ pc = "run" /\ svidTimer.left = 0 /\ ~MintNeeded
      /\ svidTimer' = Timer(SVIDMin)
      /\ UNCHANGED <<call, pc, config, store, authorities, outage, caBundle, cert, gone>>
  BY DEF SVIDTimerIdles, Ready, server
<1>2. /\ svidTimer' = [left |-> svidTimer'.left, next |-> svidTimer'.next]
      /\ svidTimer'.left = SVIDMin /\ SVIDMin \in Nat /\ SVIDMin >= 1
      /\ svidTimer'.next \in Nat /\ svidTimer'.next <= MaxBackoff
  BY <1>1, TimerShape, Numbers
<1>3. Shapes'
  BY <1>1, <1>2 DEF CertInv, Shapes
<1>4. ASSUME ~gone PROVE Timely'
  <2>1. store # Absent
    BY <1>1, <1>4 DEF CertInv
  <2>2. /\ cert.lifetime \in Lifetimes /\ cert.expiresIn \in Int
        /\ outage \in Int /\ outage <= MaxOutage
    BY <1>1 DEF CertInv, Shapes
  <2>3. /\ Margin(cert.lifetime) \in Nat /\ MaxOutage \in Nat
        /\ MaxBackoff \in Nat /\ MaxBackoff >= 1
    BY <2>2, Numbers
  <2>4. cert.expiresIn >= Margin(cert.lifetime)
    BY <1>1, <2>1, <2>2, <2>3 DEF MintNeeded, expiresSoon
  <2>5. QED
    BY <1>1, <1>2, <2>2, <2>3, <2>4 DEF Timely, Spare
<1>5. QED
  BY <1>1, <1>2, <1>3, <1>4 DEF CertInv

\* The server is down when the timer runs out: the back-off begins before the
\* last tick of the outage.
LEMMA FailKeeps ==
    ASSUME CertInv, SVIDTimerFails
    PROVE  CertInv'
<1>1. /\ pc = "run" /\ svidTimer.left = 0 /\ outage > 0 /\ MintNeeded
      /\ svidTimer' = BackOff(svidTimer)
      /\ UNCHANGED <<call, pc, config, store, authorities, outage, caBundle, cert, gone>>
  BY DEF SVIDTimerFails, Ready, server
<1>2. /\ svidTimer' = [left |-> svidTimer'.left, next |-> svidTimer'.next]
      /\ svidTimer'.left = svidTimer.next
      /\ svidTimer.next \in Nat /\ svidTimer.next <= MaxBackoff
      /\ svidTimer'.next \in Nat /\ svidTimer'.next <= MaxBackoff
  BY <1>1, TimerShape DEF BackOff, CertInv, Shapes
<1>3. Shapes'
  BY <1>1, <1>2 DEF CertInv, Shapes
<1>4. ASSUME ~gone PROVE Timely'
  <2>1. /\ cert.lifetime \in Lifetimes /\ cert.expiresIn \in Int
        /\ outage \in Int /\ outage <= MaxOutage
    BY <1>1 DEF CertInv, Shapes
  <2>2. /\ Margin(cert.lifetime) \in Nat /\ MaxOutage \in Nat /\ SVIDMin \in Nat
        /\ MaxBackoff \in Nat /\ MaxBackoff >= 1
    BY <2>1, Numbers
  <2>3. cert.expiresIn >= Margin(cert.lifetime) - SVIDMin - (MaxOutage - outage)
    BY <1>1, <1>4 DEF CertInv, Timely, Spare
  <2>4. QED
    BY <1>1, <1>2, <2>1, <2>2, <2>3 DEF Timely, Spare
<1>5. store # Absent
  BY <1>1 DEF MintNeeded
<1>6. QED
  BY <1>1, <1>3, <1>4, <1>5 DEF CertInv

\* A tick: the certificate loses one, and so does the timer or the outage.
LEMMA TickKeeps ==
    ASSUME CertInv, Tick
    PROVE  CertInv'
<1>1. /\ pc = "run" /\ store = config
      /\ svidTimer.left # 0 \/ outage > 0
      /\ svidTimer' = Passed(svidTimer)
      /\ cert' = [cert EXCEPT !.expiresIn = IF @ < 0 THEN @ ELSE @ - 1]
      /\ outage' = IF outage = 1 THEN -1 ELSE IF outage > 1 THEN outage - 1 ELSE outage
      /\ UNCHANGED <<call, pc, config, store, authorities, caBundle, gone>>
  BY DEF Tick, Waiting, server
<1>2. Shapes
  BY DEF CertInv
<1>3. /\ svidTimer' = [left |-> svidTimer'.left, next |-> svidTimer'.next]
      /\ svidTimer.left \in Nat
      /\ svidTimer'.left = IF svidTimer.left = 0 THEN 0 ELSE svidTimer.left - 1
      /\ svidTimer'.left \in Nat
      /\ svidTimer'.next \in Nat /\ svidTimer'.next <= MaxBackoff
  BY <1>1, <1>2 DEF Passed, Shapes
<1>4. /\ cert' = [lifetime |-> cert'.lifetime, expiresIn |-> cert'.expiresIn,
                  names |-> cert'.names, signer |-> cert'.signer]
      /\ cert'.lifetime = cert.lifetime
      /\ cert.expiresIn \in Int /\ cert'.expiresIn \in Int
      /\ cert'.expiresIn >= cert.expiresIn - 1
  BY <1>1, <1>2 DEF Shapes
<1>5. outage \in Int /\ -1 <= outage /\ outage <= MaxOutage /\ MaxOutage \in Nat
  BY <1>2, Numbers DEF Shapes
<1>6. Shapes'
  BY <1>1, <1>2, <1>3, <1>4, <1>5 DEF Shapes
<1>7. ASSUME ~gone PROVE Timely'
  <2>1. Margin(cert.lifetime) \in Nat /\ SVIDMin \in Nat /\ MaxBackoff \in Nat /\ MaxBackoff >= 1
    BY <1>1, <1>2, Numbers DEF Shapes
  <2>2. Timely
    BY <1>1, <1>7 DEF CertInv
  <2>3. QED
    BY <1>1, <1>3, <1>4, <1>5, <2>1, <2>2 DEF Timely, Spare
<1>8. QED
  BY <1>1, <1>6, <1>7 DEF CertInv

\* The server goes down, or Init waits for it.
LEMMA OutageKeeps ==
    ASSUME CertInv, GoDown \/ InitWaits
    PROVE  CertInv'
<1>1. /\ outage' \in Int /\ -1 <= outage' /\ outage' <= MaxOutage
      /\ pc = "run" => outage = 0 /\ outage' > 0
      /\ UNCHANGED <<call, pc, config, store, authorities, caBundle, cert, svidTimer, gone>>
  BY Numbers DEF GoDown, InitWaits, server, timers, CertInv, Shapes
<1>2. Shapes'
  BY <1>1 DEF CertInv, Shapes
<1>3. ASSUME pc = "run", ~gone PROVE Timely'
  <2>1. /\ cert.lifetime \in Lifetimes /\ cert.expiresIn \in Int /\ svidTimer.left \in Nat
        /\ outage = 0 /\ cert.expiresIn - svidTimer.left >= Margin(cert.lifetime) - SVIDMin
    BY <1>1, <1>3 DEF CertInv, Shapes, Timely, Spare
  <2>2. /\ Margin(cert.lifetime) \in Nat /\ MaxOutage \in Nat /\ SVIDMin \in Nat
        /\ MaxBackoff \in Nat /\ MaxBackoff >= 1
    BY <2>1, Numbers
  <2>3. QED
    BY <1>1, <1>3, <2>1, <2>2 DEF Timely, Spare
<1>4. QED
  BY <1>1, <1>2, <1>3 DEF CertInv

\* Another writer changes the configuration, or the informer sees it.
LEMMA ConfigKeeps ==
    ASSUME CertInv, ChangeConfig \/ InformerUpdates
    PROVE  CertInv'
<1>1. /\ UNCHANGED <<call, pc, authorities, outage, caBundle, cert, svidTimer>>
      /\ config' \in Configs \cup {Absent}
      /\ store' \in Configs \cup {Absent}
  BY ConfigAssumption DEF ChangeConfig, InformerUpdates, server, timers, CertInv, Shapes
<1>2. /\ ~gone' => ~gone
      /\ ~gone' /\ config # Absent => config' # Absent
      /\ store' = store \/ store' = config
  <2>1. CASE ChangeConfig
    <3>1. gone' = (gone \/ config' = Absent) /\ store' = store
      BY <2>1 DEF ChangeConfig
    <3>2. QED
      BY <3>1, Zenon
  <2>2. CASE InformerUpdates
    <3>1. gone' = gone /\ config' = config /\ store' = config
      BY <2>2 DEF InformerUpdates
    <3>2. QED
      BY <3>1, Zenon
  <2>3. QED
    BY <2>1, <2>2
<1>3. Shapes'
  BY <1>1 DEF CertInv, Shapes
<1>4. Timely => Timely'
  BY <1>1 DEF Timely, Spare
<1>5. QED
  BY <1>1, <1>2, <1>3, <1>4 DEF CertInv

\* The bundle and webhook timers and the authorities.
LEMMA BundleKeeps ==
    ASSUME CertInv,
           \/ BundleTimerRefreshes \/ BundleTimerFails \/ RefreshWaits \/ RefreshReturns
           \/ WebhookTimerUpdates \/ WebhookChanged \/ MintWaits
           \/ Prepare \/ Activate \/ Prune
    PROVE  CertInv'
<1>0. /\ config \in Configs \cup {Absent}
      /\ authorities \in SUBSET Authorities /\ caBundle \in SUBSET Authorities
  BY DEF CertInv, Shapes
<1>1. CASE Refreshed
  <2>1. /\ UNCHANGED <<pc, cert, svidTimer, outage, gone, store, authorities>>
        /\ call' = NoCall /\ caBundle' = authorities
        /\ Update(authorities) \/ UpdateFails(authorities)
    BY <1>1 DEF Refreshed, server
  <2>2. QED
    BY <1>0, <2>1, PatchKeeps, OthersKeep
<1>2. CASE WebhookTimerUpdates \/ WebhookChanged
  <2>1. /\ UNCHANGED <<pc, cert, svidTimer, outage, gone, store, authorities, call, caBundle>>
        /\ Update(caBundle) \/ UpdateFails(caBundle)
    BY <1>2 DEF WebhookTimerUpdates, WebhookChanged, server
  <2>2. QED
    BY <1>0, <2>1, PatchKeeps, OthersKeep
<1>3. CASE BundleTimerFails \/ RefreshWaits \/ MintWaits
  <2>1. /\ UNCHANGED <<pc, cert, svidTimer, outage, gone, store, authorities, caBundle, config>>
        /\ pc = "run"
    BY <1>3 DEF BundleTimerFails, RefreshWaits, MintWaits, Ready, server, timers
  <2>2. QED
    BY <1>0, <2>1, OthersKeep
<1>4. CASE Prepare \/ Activate \/ Prune
  <2>1. /\ UNCHANGED <<pc, cert, svidTimer, outage, gone, store, call, caBundle, config>>
        /\ authorities' \subseteq Authorities
    BY <1>0, <1>4 DEF Prepare, Activate, Prune, timers
  <2>2. QED
    BY <1>0, <2>1, OthersKeep
<1>5. QED
  BY <1>1, <1>2, <1>3, <1>4 DEF BundleTimerRefreshes, RefreshReturns

\* Every step keeps the invariant.
LEMMA CertInvStep ==
    ASSUME CertInv, [Next]_vars
    PROVE  CertInv'
<1>1. CASE UNCHANGED vars
  BY <1>1 DEF vars, CertInv, Shapes, Timely, Spare
<1>2. CASE Next
  BY <1>2, InitKeeps, InitMintKeeps, InitPatchKeeps, LoopMintKeeps, IdleKeeps, FailKeeps,
     TickKeeps, OutageKeeps, ConfigKeeps, BundleKeeps DEF Next
<1>3. QED
  BY <1>1, <1>2

-----------------------------------------------------------------------------
\* While there is a configuration the webhook server never presents a
\* certificate that has run out, for any lifetimes, timers and outages that
\* satisfy MarginAssumption (manager.go:134-141 and 432-448).
THEOREM WebhookCertificateValid == Spec => []CertificateValid
<1>1. ASSUME CertInv PROVE CertificateValid
  <2> SUFFICES ASSUME pc = "run", ~gone PROVE cert.expiresIn >= 0
    BY DEF CertificateValid
  <2>1. /\ cert.lifetime \in Lifetimes /\ cert.expiresIn \in Int /\ svidTimer.left \in Nat
        /\ outage \in Int /\ outage <= MaxOutage
        /\ Timely
    BY <1>1 DEF CertInv, Shapes
  <2>2. /\ Margin(cert.lifetime) \in Nat /\ MaxOutage \in Nat /\ SVIDMin \in Nat
        /\ MaxBackoff \in Nat /\ MaxBackoff >= 1
        /\ SVIDMin + MaxBackoff + MaxOutage - 1 <= Margin(cert.lifetime)
    BY <2>1, Numbers, MarginAssumption
  <2>3. QED
    BY <2>1, <2>2 DEF Timely, Spare
<1>2. QED
  BY <1>1, CertInvInit, CertInvStep, PTL DEF Spec

\* For any configurations and interleavings a patch leaves the webhooks and
\* services other writers have set (manager.go:254-289).
THEOREM WebhookKeepsOthersWrites == Spec => OthersWritesKept
<1> DEFINE Kept == /\ (config' = Absent) = (config = Absent)
                   /\ config # Absent =>
                         /\ DOMAIN config' = DOMAIN config
                         /\ \A w \in DOMAIN config : config'[w].service = config[w].service
<1>1. ASSUME CertInv, Next, patched' PROVE Kept
  <2>1. CASE InitPatch \/ BundleTimerRefreshes \/ RefreshReturns \/ WebhookTimerUpdates \/ WebhookChanged
    <3>1. \E ca \in SUBSET Authorities : Update(ca) \/ UpdateFails(ca)
      BY <1>1, <2>1 DEF InitPatch, BundleTimerRefreshes, RefreshReturns, Refreshed,
                        WebhookTimerUpdates, WebhookChanged, CertInv, Shapes
    <3>2. PICK ca \in SUBSET Authorities : Update(ca) \/ UpdateFails(ca)
      BY <3>1
    <3>3. config \in Configs \cup {Absent}
      BY <1>1 DEF CertInv, Shapes
    <3>4. QED
      BY <3>2, <3>3, PatchKeeps
  <2>2. CASE ~(InitPatch \/ BundleTimerRefreshes \/ RefreshReturns \/ WebhookTimerUpdates \/ WebhookChanged)
    <3>1. patched' = FALSE
      BY <1>1, <2>2, Zenon
         DEF Next, InitRefresh, InitGet, InitMint, InitFails, InitWaits, Crash, Restarted,
             SVIDTimerMints, SVIDTimerIdles, SVIDTimerFails, BundleTimerFails, MintWaits,
             MintReturns, RefreshWaits, InformerUpdates, Tick, GoDown, Prepare, Activate,
             Prune, ChangeConfig
    <3>2. QED
      BY <1>1, <3>1, Zenon
  <2>3. QED
    BY <2>1, <2>2
<1>2. ASSUME CertInv, [Next]_vars PROVE [patched' => Kept]_vars
  BY <1>1, <1>2
<1>3. QED
  BY <1>2, CertInvInit, CertInvStep, PTL DEF Spec, OthersWritesKept

=============================================================================
