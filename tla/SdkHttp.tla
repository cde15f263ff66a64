------------------------------ MODULE SdkHttp ------------------------------
(* The SDK's HTTP login primitives (client/src/sdk_http.rs, response.rs and  *)
(* form.rs): which configurations make a client, which requests it signs and *)
(* what it makes of an answer. A client is made anew for each login and asks *)
(* twice, for the RSA challenge and then with the password; AccountLogin has *)
(* those two steps, these operators say what either can come to. Texts are   *)
(* reduced to what the checks tell apart.                                    *)
EXTENDS Naturals, FiniteSets

-----------------------------------------------------------------------------
(* Configuration.                                                            *)

\* A base URL: https, no user, query or fragment, path / or /passport; a
\* trailing slash makes no difference.
BaseUrls == {"blank", "root", "passport", "passport/", "other_path", "http", "unparsable"}
normalize_base(url) ==
  CASE url = "root" -> "root"
    [] url \in {"passport", "passport/"} -> "passport"
    [] OTHER -> "invalid"

\* The common parameters as the operator gives them: the names with a value,
\* and the names listed as omitted. Every known name must be in exactly one.
CommonFields == {"game_id", "ad_ext", "adid"}
CommonParameters(given, omit) ==
  /\ given \cap omit = {}
  /\ given \cup omit = CommonFields

AppKey(key) == key = "some"

SdkConfig == [base_url : BaseUrls, allowed : SUBSET {"root", "passport/"},
              given : SUBSET (CommonFields \cup {"unknown"}), omit : SUBSET CommonFields,
              app_key : {"none", "some", "long"}, country : BOOLEAN, header : {"none", "good", "bad"}]

\* SdkHttpClient::new: the base must be one of the allowed ones; header values
\* must be short and legal. The two durations are constants of this program.
new(c) ==
  /\ normalize_base(c.base_url) # "invalid"
  /\ \E url \in c.allowed : normalize_base(url) = normalize_base(c.base_url)
  /\ c.header # "bad"

\* SdkConfig::client of the operator's configuration.
client(c) ==
  /\ c.country /\ CommonParameters(c.given, c.omit)
  /\ AppKey(c.app_key)
  /\ new(c)

-----------------------------------------------------------------------------
(* Requests.                                                                 *)

\* A secret that is not empty and not over its bound.
validate_secret(v) == v = "some"

\* An optional field: left out when empty, refused when over its bound.
optional(v) == IF v = "long" THEN "refused" ELSE IF v = "some" THEN "sent" ELSE "left_out"

\* The signed form. A value already encoded must decode to text, and the whole
\* body stays within 64 KiB; anything else is refused before it is sent.
Field == [encoded : BOOLEAN, text : {"plain", "percent", "not_utf8"}]
form_encoded(f) == f.text
form_raw(f) == IF f.text = "not_utf8" THEN "percent" ELSE f.text
sign_form(fields, fits) ==
  /\ fits
  /\ \A f \in fields :
       (IF f.encoded THEN form_encoded(f) ELSE form_raw(f)) # "not_utf8"

\* The password travels encrypted under the challenge: same client, a key of
\* 1024 to 4096 bits, and room for hash and password in one block.
encrypt_password(challenge, fits) == challenge.bits \in 1024..4096 /\ fits

\* What a login asks for; the challenge must come from this very client.
PasswordLogin == [user_id : {"none", "some", "long"}, password : {"none", "some", "long"},
                  ticket : {"none", "long"}, bound : BOOLEAN, bits : {1024, 4096}, fits : BOOLEAN]
password_request(l) ==
  /\ l.bound
  /\ validate_secret(l.user_id) /\ validate_secret(l.password)
  /\ encrypt_password(l, l.fits)
  /\ optional(l.ticket) # "refused"

-----------------------------------------------------------------------------
(* Answers.                                                                  *)

\* One exchange as the wire shows it: how it ended, the body's envelope and
\* the data inside. 204 and 205 are successes of HTTP, not of this protocol.
Reply == [end : {"network", "timeout", "cancelled", "status", "no_content", "oversized", "body"},
          json : BOOLEAN, code : {0, 200007},
          data : {"absent", "malformed", "out_of_bounds", "good"}]

\* send(): the biased select puts a cancellation first, then the deadline.
send(r) ==
  CASE r.end = "cancelled" -> "Cancelled"
    [] r.end = "timeout" -> "Timeout"
    [] r.end = "network" -> "Transport"
    [] r.end \in {"status", "no_content"} -> "HttpStatus"
    [] r.end = "oversized" -> "Protocol"
    [] OTHER -> "body"

\* The envelope: any code but zero is a rejection, whatever the data.
parse(r, good) ==
  IF ~r.json THEN "Protocol"
  ELSE IF r.code # 0 THEN "Rejected"
  ELSE IF r.data = "absent" \/ ~good THEN "Protocol" ELSE "Success"

\* The challenge: a PEM public key within bounds and its hash.
rsa(r) == parse(r, r.data = "good")

\* The user: a uid as text or as a number that is not negative, and an access
\* key; a cache login keeps the key it was asked with.
deserialize_uid(data) == data # "malformed"
login(r) == parse(r, deserialize_uid(r.data) /\ r.data = "good")

fetch_rsa(r) == IF send(r) = "body" THEN rsa(r) ELSE send(r)
password_login(l, r) ==
  IF ~password_request(l) THEN "InvalidInput"
  ELSE IF send(r) = "body" THEN login(r) ELSE send(r)
=============================================================================
