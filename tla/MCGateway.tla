----------------------------- MODULE MCGateway -----------------------------
(* Configurations, files and requests for Gateway: two regions with a login  *)
(* and JP accounts, a directory of two rotating accounts, and files that are *)
(* wrong in one way each.                                                    *)
EXTENDS Gateway, TLC
CONSTANTS r1, r2

At2(host, form) == [host |-> host, form |-> form]
Session(region, host) ==
  [region |-> region, origin |-> At2(host, "bare"), allowed_origins |-> {At2(host, "slash")},
   platform |-> "android", client_version |-> "1", master |-> None, resource |-> None]
Login(dir) ==
  [is |-> "table", state_dir |-> dir, context |-> [is |-> "inline", given |-> TRUE],
   sdk |-> [is |-> "inline",
            settings |-> [base_url |-> "passport", allowed |-> {"passport/"}, given |-> {"game_id"},
                          omit |-> {"ad_ext", "adid"}, app_key |-> "some", country |-> TRUE,
                          header |-> "none"]]]
Accounts(strategy, dir) ==
  [is |-> "table", strategy |-> strategy, directory |-> dir, selected |-> None]

Taiwan == [session |-> Session("hk", "h1"), credentials |-> None, login |-> Login("/s/tw"),
           accounts |-> Nothing, recovery |-> TRUE, sync |-> TRUE, interval |-> TRUE,
           bounded |-> TRUE]
Global == [Taiwan EXCEPT !.session = Session("en", "h2"), !.login = Login("/s/en"), !.sync = FALSE]
Japan  == [Global EXCEPT !.session = Session("jp", "h3"), !.login = Nothing, !.recovery = FALSE,
                         !.accounts = Accounts("single", "international")]
Rotating == [Taiwan EXCEPT !.recovery = FALSE, !.accounts = Accounts("round_robin", "/a"),
                           !.sync = FALSE]

File(own, regions) ==
  [file |-> "text", private |-> TRUE, typed |-> TRUE, own |-> own, regions |-> regions,
   api_key |-> [is |-> "inline", value |-> "good"], response_mode |-> None,
   experimental_raw |-> FALSE]

MCConfigs ==
  [two |-> File(Taiwan, "en" :> Global),
   rotating |-> [File(Rotating, [name \in {} |-> Japan]) EXCEPT
                   !.api_key = [is |-> "file", path |-> "/k", value |-> "good"]],
   linked |-> File(Taiwan, "en" :> [Global EXCEPT !.login = Login("/link/tw")]),
   mislabelled |-> File(Taiwan, "en" :> [Global EXCEPT !.session = Session("kr", "h2")]),
   incomplete |-> File([Taiwan EXCEPT !.login = Login("/s/new")], "en" :> Global),
   exposed |-> [File(Taiwan, "en" :> Global) EXCEPT !.private = FALSE],
   absent |-> [File(Taiwan, "en" :> Global) EXCEPT !.file = "absent"]]

MCDisk ==
  [real |-> ("/s/tw" :> "/s/tw" @@ "/s/en" :> "/s/en" @@ "/link/tw" :> "/s/tw" @@
             "/a" :> "/a" @@ "jp" :> "/jp" @@ "/k" :> "/keys/k" @@ "/keys/k" :> "/keys/k"),
   dirs |-> {"/s/tw", "/s/en", "/link/tw", "/a", "jp"}, readable |-> {"/keys/k"},
   holds |-> "/s/tw" :> [region |-> "hk", origin |-> At2("h1", "bare"), complete |-> TRUE,
                         bid |-> FALSE, sdk |-> TRUE],
   accounts |-> ("/a" :> {"a1", "a2", "hidden"} @@ "jp" :> {"a1"})]

Empty == [k \in {} |-> <<>>]
Get(form, region, method, path, raw) ==
  [key |-> "good", get |-> TRUE, form |-> form, region |-> region, method |-> method,
   path |-> path, raw |-> raw, legible |-> TRUE, body |-> "none"]
Id2 == [playerProfileId |-> <<"2.id">>]
MCMenu ==
  [plain |-> [Get("query", "none", "profile", Empty, Id2) EXCEPT !.body = "empty"],
   mismatch |-> [Get("path", "en", "profile", Id2, Empty) EXCEPT !.body = "empty"],
   inferred |-> Get("path", "none", "profile", [playerProfileId |-> <<"3.id">>], Empty),
   doubled |-> Get("path", "none", "event-ranking",
                   [eventId |-> <<"number">>, ranks |-> <<"number">>], [ranks |-> <<"number">>]),
   keyless |-> [Get("path", "none", "profile", Id2, Empty) EXCEPT !.key = "bad",
                                                                  !.body = "content"]]
=============================================================================
