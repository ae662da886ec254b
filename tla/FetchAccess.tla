--------------------------- MODULE FetchAccess ---------------------------
(***************************************************************************)
(* Access to the web from a script: the fetch pack of one sandbox with the *)
(* policy checkers it consults.                                            *)
(*                                                                         *)
(* A call is allowed by an approval the user gave this pack instance, or   *)
(* by the policy, or else by asking the user; allowUrls() asks for several *)
(* hosts in the order a Go map yields them.  A raw argument is a full URL  *)
(* or a bare host name, which net/url parses to no host at all.  A request *)
(* that leaves may be redirected: net/http follows by itself, unchecked.   *)
(***************************************************************************)
EXTENDS Integers, Sequences, FiniteSets, SequencesExt

CONSTANTS
  Hosts,        \* host names
  Ancestors,    \* host -> the domains it is a subdomain of
  Stems,        \* host -> the shorter host names its text begins with
  PrivateHosts, \* loopback, private ranges, .local, .internal
  Raws,         \* script arguments: [full, host, path]
  Policies,     \* the installed policies: sequences of checkers
  Batches,      \* the arguments of allowUrls: sequences of Raws
  MaxRedirects  \* redirects net/http follows: 10

VARIABLES
  policy,       \* the MultiPolicy of the sandbox
  requester,    \* whether there is an InputRequester
  approved,     \* sessionAllowed
  config,       \* currentPolicyConfig: the allowlist last seen
  pc,           \* where the current call is
  call,         \* the call: [kind, raw, hops, todo]: the request at hand, redirects
                \* followed to it, and the allowUrls left to ask for
  said          \* ghost: the hosts the user was asked about and said yes to

vars == <<policy, requester, approved, config, pc, call, said>>

NoCall == [kind |-> "none", raw |-> [full |-> FALSE, host |-> "", path |-> <<>>],
           hops |-> 0, todo |-> {}]

Init ==
  /\ policy \in Policies
  /\ requester \in BOOLEAN
  /\ approved = {} /\ config = {}
  /\ pc = "idle" /\ call = NoCall
  /\ said = {}

-----------------------------------------------------------------------------
(* The checkers.  A verdict allows with a config, which may be absent, or
   denies; a checker that fails is a denial to the pack. *)

Hostname(raw) == IF raw.full THEN raw.host ELSE ""
Absent == [present |-> FALSE, all |-> FALSE, urls |-> {}]
Allow(cfg) == [allowed |-> TRUE, config |-> cfg]
Deny == [allowed |-> FALSE, config |-> Absent]
Listing(urls) == Allow([present |-> TRUE, all |-> FALSE, urls |-> urls])

(* strings.HasPrefix on the raw URL: an entry without a path may end anywhere
   in the host name. *)
Prefixed(raw, entry) ==
  /\ raw.full /\ ~entry.sub /\ ~entry.any
  /\ \/ raw.host = entry.host /\ IsPrefix(entry.path, raw.path)
     \/ entry.path = <<>> /\ entry.host \in Stems[raw.host]

URLAllowlist(checker, raw) ==
  IF \E entry \in checker.urls : Prefixed(raw, entry) THEN Allow(Absent) ELSE Deny

Default(checker, raw) ==
  CASE \E entry \in checker.urls : Prefixed(raw, entry) -> Allow(Absent)
    [] Hostname(raw) \in PrivateHosts \cup {""} /\ ~checker.private -> Deny
    [] OTHER -> IF checker.urls = {} THEN Allow(Absent) ELSE Deny

(* A checker of the application: any config, whatever the URL. *)
Custom(checker, raw) ==
  IF checker.fails THEN Deny
  ELSE Allow([present |-> TRUE, all |-> checker.all, urls |-> checker.urls])

Verdict(checker, raw) ==
  CASE checker.kind = "allowlist" -> URLAllowlist(checker, raw)
    [] checker.kind = "default" -> Default(checker, raw)
    [] checker.kind = "custom" -> Custom(checker, raw)

(* The empty URL is a probe: the URL checkers answer it with their list. *)
ProbeVerdict(checker) ==
  IF checker.kind = "custom" THEN Custom(checker, NoCall.raw) ELSE Listing(checker.urls)

(* MultiPolicy: the first denial wins, then the last config. *)
Chain(verdicts) ==
  FoldLeft(LAMBDA final, v :
             CASE ~final.allowed -> final
               [] ~v.allowed -> v
               [] OTHER -> IF v.config.present THEN v ELSE final,
           Allow(Absent), verdicts)

Check(raw) == Chain([i \in DOMAIN policy |-> Verdict(policy[i], raw)])
Probe == Chain([i \in DOMAIN policy |-> ProbeVerdict(policy[i])])

(* isURLAllowed: the pack's own matching of an allowlist from a config. *)
URLMatches(raw, entry) ==
  \/ entry.any
  \/ /\ IF entry.sub
          THEN Hostname(raw) # "" /\ entry.host \in Ancestors[raw.host] \cup {raw.host}
          ELSE Hostname(raw) = entry.host
     /\ IsPrefix(entry.path, raw.path)

PolicyAllows(raw) ==
  LET v == Check(raw) IN
  /\ v.allowed
  /\ v.config.all \/ v.config.urls = {} \/ \E entry \in v.config.urls : URLMatches(raw, entry)

-----------------------------------------------------------------------------
(* isSessionAllowed: the host or a domain above it was approved. *)
SessionAllowed(host) ==
  host # "" /\ (host \in approved \/ Ancestors[host] \cap approved # {})

(* policyCheckFetch: an approval short-circuits the policy; a policy that
   allows leaves its config behind. *)
Cleared(raw) == SessionAllowed(Hostname(raw)) \/ PolicyAllows(raw)

KeepConfig(raw) ==
  config' = IF ~SessionAllowed(Hostname(raw)) /\ Check(raw).allowed
              THEN Check(raw).config.urls ELSE config

Goto(label) == pc' = label

(* requestAccess for the raw argument r: the label it goes to. *)
Access(r, granted, denied) ==
  IF SessionAllowed(r.host)
    THEN Goto(granted) /\ UNCHANGED config
    ELSE /\ KeepConfig(r)
         /\ Goto(CASE Cleared(r) -> granted
                   [] ~Cleared(r) /\ requester -> "asking"
                   [] OTHER -> denied)

Fetch ==
  /\ pc = "idle"
  /\ \E r \in Raws :
       /\ call' = [NoCall EXCEPT !.kind = "fetch", !.raw = r]
       /\ Access(r, "send", "blocked")
  /\ UNCHANGED <<policy, requester, approved, said>>

(* _http never asks. *)
Http ==
  /\ pc = "idle"
  /\ \E r \in Raws :
       /\ call' = [NoCall EXCEPT !.kind = "http", !.raw = r]
       /\ KeepConfig(r)
       /\ Goto(IF Cleared(r) THEN "send" ELSE "blocked")
  /\ UNCHANGED <<policy, requester, approved, said>>

(* allowUrls keeps the first argument of each host. *)
FirstPerHost(batch) ==
  {batch[i] : i \in {j \in DOMAIN batch : \A k \in 1..(j - 1) : batch[k].host # batch[j].host}}

AllowUrls ==
  /\ pc = "idle"
  /\ \E batch \in Batches :
       call' = [NoCall EXCEPT !.kind = "allowUrls", !.todo = FirstPerHost(batch)]
  /\ Goto("batch")
  /\ UNCHANGED <<policy, requester, approved, config, said>>

(* A slip: which hosts need asking is decided from the policy alone. *)
NextOfBatchUnremembered ==
  /\ pc = "batch" /\ call.todo # {}
  /\ \E r \in call.todo :
       /\ call' = [call EXCEPT !.raw = r, !.todo = @ \ {r}]
       /\ config' = IF Check(r).allowed THEN Check(r).config.urls ELSE config
       /\ Goto(CASE PolicyAllows(r) -> "batch"
                 [] ~PolicyAllows(r) /\ requester -> "asking"
                 [] OTHER -> "batch")
  /\ UNCHANGED <<policy, requester, approved, said>>

NextOfBatch ==
  /\ pc = "batch" /\ call.todo # {}
  /\ \E r \in call.todo :
       /\ call' = [call EXCEPT !.raw = r, !.todo = @ \ {r}]
       /\ Access(r, "batch", "batch")
  /\ UNCHANGED <<policy, requester, approved, said>>

Yes ==
  /\ pc = "asking"
  /\ approved' = approved \cup {call.raw.host}
  /\ said' = said \cup {call.raw.host}
  /\ Goto(IF call.kind = "allowUrls" THEN "batch" ELSE "send")
  /\ UNCHANGED <<policy, requester, config, call>>

(* The user says no, or cannot be asked; nothing is remembered. *)
No ==
  /\ pc = "asking"
  /\ Goto(IF call.kind = "allowUrls" THEN "batch" ELSE "blocked")
  /\ UNCHANGED <<policy, requester, approved, config, call, said>>

FetchWhitelist ==
  /\ pc = "idle"
  /\ config' = IF Probe.allowed THEN Probe.config.urls ELSE config
  /\ UNCHANGED <<policy, requester, approved, pc, call, said>>

(* The answer is a redirect, to wherever the server says: http.DefaultClient
   follows it, and neither requestAccess nor the policy is consulted again. *)
Redirect ==
  /\ pc \in {"send", "followed"} /\ call.raw.full /\ call.hops < MaxRedirects
  /\ \E r \in Raws :
       /\ r.full
       /\ call' = [call EXCEPT !.raw = r, !.hops = @ + 1]
  /\ Goto("followed")
  /\ UNCHANGED <<policy, requester, approved, config, said>>

(* The answer is in or the request failed; or the call throws, or the batch is
   through. *)
CallEnds ==
  /\ pc \in {"send", "followed", "blocked"} \/ (pc = "batch" /\ call.todo = {})
  /\ Goto("idle")
  /\ call' = NoCall
  /\ UNCHANGED <<policy, requester, approved, config, said>>

Next ==
  \/ Fetch \/ Http \/ AllowUrls \/ NextOfBatch \/ Yes \/ No
  \/ FetchWhitelist \/ Redirect \/ CallEnds

Spec == Init /\ [][Next]_vars

-----------------------------------------------------------------------------
Covered(host) == host \in said \/ Ancestors[host] \cap said # {}

(* In the life of one pack instance the user is never asked about a host he
   has already allowed, by name or through a domain above it, in the same
   allowUrls() or an earlier call; and the request a call makes leaves only for
   a host he allowed or a URL the policy clears (requestAccess,
   isSessionAllowed).  The requests net/http adds to it, following redirects,
   are not covered: ReachesTheAllowed. *)
AsksOnceThenHonours ==
  /\ pc = "asking" => ~Covered(call.raw.host)
  /\ pc = "send" => Covered(call.raw.host) \/ PolicyAllows(call.raw)

-----------------------------------------------------------------------------
(* A claim of the repository that this code does not keep. *)

(* policy.go: a checker "that allows fetch() / require('http') / browser
   navigation to reach exactly the URL prefixes in AllowedPrefixes", and what the
   user allowed besides.  A redirect takes an allowed request to a host that
   neither he nor the checker was asked about. *)
ReachesTheAllowed ==
  pc \in {"send", "followed"} =>
    \A i \in DOMAIN policy : policy[i].kind = "allowlist" =>
      Covered(call.raw.host) \/ URLAllowlist(policy[i], call.raw).allowed
=============================================================================
