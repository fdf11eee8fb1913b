------------------------------ MODULE Notify -------------------------------
(* Where notifications go: the configuration the administrator saved, or the *)
(* environment's, and the two channels.  Wording and templates are left out. *)
EXTENDS Integers, FiniteSets

CONSTANTS
  Urls,         \* addresses a channel can have
  Https,        \* those with the https scheme
  PublicUrls,   \* those whose name resolves to public addresses only
  None,         \* the empty string
  TelegramApi,  \* the default endpoint
  TestMax       \* TEST_MAX_PER_USER

NotifyAssumption ==
  /\ Https \subseteq Urls /\ PublicUrls \subseteq Urls
  /\ None \notin Urls /\ TelegramApi \in Https \cap PublicUrls
  /\ TestMax \in Nat

\* botToken and chatId count by whether they are there.
Configs == [enabled : BOOLEAN, token : BOOLEAN, chat : BOOLEAN,
            endpoint : Urls \cup {None}, webhook : Urls \cup {None}]

AssertPublicUrl(url) == url \in Https \cap PublicUrls

\* Number of the environment's variables that are set, as a configuration.
DefaultNotifyConfig(env) ==
  [enabled |-> FALSE, token |-> env.token, chat |-> env.chat,
   endpoint |-> TelegramApi, webhook |-> env.webhook]

Channels(cfg) ==
  (IF cfg.token /\ cfg.chat THEN {"telegram"} ELSE {})
    \cup (IF cfg.webhook # None THEN {"webhook"} ELSE {})

(***************************************************************************)
(* read is what getSetting gave: a saved configuration (of an older master *)
(* perhaps, without some fields), no row, or an error.                     *)
(***************************************************************************)
Merged(base, saved) == [f \in DOMAIN base |-> IF f \in DOMAIN saved THEN saved[f] ELSE base[f]]

\* A read that fails is taken for no row.
LoadConfig(env, read) ==
  LET base == DefaultNotifyConfig(env)
  IN  IF read.found THEN Merged(base, read.saved)
      ELSE [base EXCEPT !.enabled = Channels(base) # {}]

\* GET /api/notify-config, for the settings page.
ShownConfig(env, read) ==
  LET base == DefaultNotifyConfig(env)
  IN  IF read.found THEN Merged(base, read.saved) ELSE base

(***************************************************************************)
(* Sending: each channel by itself, errors go to the log.                  *)
(***************************************************************************)
UrlOf(cfg, channel) ==
  IF channel = "webhook" THEN cfg.webhook
  ELSE IF cfg.endpoint = None THEN TelegramApi ELSE cfg.endpoint

\* The channels a request is made to; what comes back is not looked at.
Sent(cfg) == {c \in Channels(cfg) : AssertPublicUrl(UrlOf(cfg, c))}

Notified(env, read) ==
  LET cfg == LoadConfig(env, read)
  IN  IF cfg.enabled THEN Sent(cfg) ELSE {}

\* The test button's answer.
SendTest(cfg) == [sent |-> Sent(cfg), ok |-> cfg.token \/ cfg.webhook # None]

(***************************************************************************)
(* POST /api/notify-config and /api/notify-test.                           *)
(***************************************************************************)
Posted(body) == [body EXCEPT !.endpoint = IF @ = None THEN TelegramApi ELSE @]

PostRefused(body) ==
  \/ body.webhook # None /\ ~AssertPublicUrl(body.webhook)
  \/ ~AssertPublicUrl(Posted(body).endpoint)

\* An hour's tests of a user are counted in the ledger of the login attempts.
NotifyTestRateLimited(attempts, user, since) ==
  Cardinality({a \in attempts : a.scope = user /\ a.ts >= since}) >= TestMax

RecordNotifyTest(attempts, user, now, id) ==
  attempts \cup {[scope |-> user, ts |-> now, id |-> id]}
=============================================================================
