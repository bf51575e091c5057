------------------------------ MODULE LaunchMC ------------------------------
(* Launches with at most one thing wrong, two artifact versions, the later *)
(* of which has dropped a file.                                            *)
EXTENDS Launch

TwoFiles == {"main", "helper"}
Dropped  == <<{"main", "helper"}, {"main"}>>

Good(uri, version, n) ==
  [env |-> {"runtime_id", "srm_url"}, module |-> FALSE, sds |-> "ok", file |-> "absent",
   given |-> Required, mode |-> "PAPER", window |-> FALSE, stated |-> n,
   uri |-> uri, held |-> version, base |-> TRUE, sound |-> "ok",
   digest |-> version, fault |-> "none", busy |-> {}, ports |-> "default"]

Base     == Good("bundle", 1, 1)
Backtest == [Base EXCEPT !.mode = "BACKTEST", !.window = TRUE]
FromFile == [Base EXCEPT !.sds = "off", !.file = "ok"]
AllBusy  == {"http", "control", "replay"} \X (-1 .. 10)

FirstAttempts ==
  {Base, Backtest, FromFile, Good("zip", 1, 1), Good("path", 1, 1),
   Good("registry_zip", 1, 0)}
  \cup {[Base EXCEPT !.env = e] : e \in {{}, {"runtime_id"}}}
  \cup {[Base EXCEPT !.sds = r] :
          r \in {"unreachable", "http_error", "empty_body", "invalid_json"}}
  \cup {[Base EXCEPT !.given = @ \ {f}] : f \in {"strategy_version_id",
                                                "account_id"}}
  \cup {[Base EXCEPT !.mode = "BOGUS"], [Base EXCEPT !.window = TRUE],
        [FromFile EXCEPT !.file = "absent"],
        [FromFile EXCEPT !.file = "unreadable"],
        [FromFile EXCEPT !.stated = NotANumber],
        [FromFile EXCEPT !.given = @ \ {"runtime_id"}],
        [FromFile EXCEPT !.stated = 0]}
  \cup {[Base EXCEPT !.uri = u, !.held = h] :
          <<u, h>> \in {<<"remote", 1>>, <<"zip", 0>>, <<"path", 0>>}}
  \cup {[Good("registry", 1, 1) EXCEPT !.base = FALSE]}
  \cup {[Base EXCEPT !.sound = s] : s \in {"corrupt", "unsafe"}}
  \cup {[Base EXCEPT !.fault = d] :
          d \in {"import", "init", "migration", "deps", "bind"}}
  \cup {[Backtest EXCEPT !.fault = "bind"]}
  \cup {[Base EXCEPT !.busy = {<<"http", 0>>}],
        [Backtest EXCEPT !.busy = {<<"control", 0>>, <<"replay", 0>>}],
        [Base EXCEPT !.ports = "no_fallback", !.busy = {<<"control", 0>>}],
        [Backtest EXCEPT !.ports = "extra",
                         !.busy = {<<"replay", 0>>, <<"replay", 10>>}]}

LaterAttempts ==
  {Good("bundle", 2, 2), Good("path", 2, 2),
   [Good("zip", 2, 2) EXCEPT !.fault = "major"]}

(* The configuration an unset SWR_USE_MODULE_CONNECTIVITY_SETTINGS gives.  *)
Default(j) == [j EXCEPT !.module = TRUE]

DefaultAttempts ==
  {Default(j) : j \in {Base, Backtest, FromFile, Good("bundle", 2, 2),
                       Good("zip", 1, 0)}}
  \cup {[Default(Base) EXCEPT !.fault = d] :
          d \in {"import", "init", "deps", "bind"}}
  \cup {[Default(Base) EXCEPT !.sds = "unreachable"]}

AllJobs == FirstAttempts \cup LaterAttempts \cup DefaultAttempts
=============================================================================
