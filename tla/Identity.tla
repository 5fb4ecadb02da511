------------------------------ MODULE Identity ------------------------------
(***************************************************************************)
(* Who is asking: createTokenVerifier and tenantScope (core/src/identity)  *)
(* as the server's resolveScope calls them (server/src/scope.ts).          *)
(*                                                                         *)
(* A presented token is [chars, alg, key, signed, exp, claims]: none,      *)
(* some, or too many characters; the algorithm of its header; whether the  *)
(* key set answers and has its key; whether the signature holds; its       *)
(* expiry - absent, past or ahead; and what each claim carries.  The       *)
(* config is [algorithms, required, mapped]: the algorithms accepted, the  *)
(* claims that must be there, and the sequence of claims that carry the    *)
(* tenant and the further settings.                                        *)
(***************************************************************************)
EXTENDS Integers, Sequences, FiniteSets

\* jose's jwtVerify, called with these options: the code it throws, or ok.
JwtVerify(token, config) ==
  IF token.alg \notin config.algorithms THEN "ERR_JOSE_ALG_NOT_ALLOWED"
  ELSE IF token.key = "no match" THEN "ERR_JWKS_NO_MATCHING_KEY"
  ELSE IF token.key = "unreachable" THEN "no code"
  ELSE IF ~token.signed THEN "ERR_JWS_SIGNATURE_VERIFICATION_FAILED"
  ELSE IF token.exp = "absent" \/ \E c \in config.required : token.claims[c] = "absent"
       THEN "ERR_JWT_CLAIM_VALIDATION_FAILED"
  ELSE IF token.exp = "past" THEN "ERR_JWT_EXPIRED" ELSE "ok"

\* CODES and asIdentityError: an error that is not listed is a bad signature.
AsIdentityError(code) ==
  CASE code = "ERR_JOSE_ALG_NOT_ALLOWED"              -> "E_TOKEN_ALG"
    [] code = "ERR_JWKS_NO_MATCHING_KEY"              -> "E_TOKEN_KEY"
    [] code = "ERR_JWT_CLAIM_VALIDATION_FAILED"       -> "E_TOKEN_CLAIM"
    [] code = "ERR_JWT_EXPIRED"                       -> "E_TOKEN_EXPIRED"
    [] OTHER                                          -> "E_TOKEN_SIGNATURE"

\* The verifier createTokenVerifier returns.
VerifyToken(token, config) ==
  IF token.chars \in {"none", "too many"} THEN "E_TOKEN_MALFORMED"
  ELSE IF JwtVerify(token, config) = "ok" THEN "ok" ELSE AsIdentityError(JwtVerify(token, config))

\* Slip: an empty text is a text.
UsableLoose(carried) == carried \in {"text", "integer", "empty", "unsafe text"}

\* claimText: a text or a safe integer that is not empty.
Usable(carried) == carried \in {"text", "integer", "unsafe text"}

\* tenantScope takes the claims in turn; the first that will not do decides.
ClaimFault(carried) ==
  IF ~Usable(carried) THEN "E_TENANT_CLAIM_MISSING"
  ELSE IF carried = "unsafe text" THEN "E_TENANT_VALUE_UNSAFE" ELSE "ok"

TenantScope(claims, mapped) ==
  LET bad == {n \in DOMAIN mapped : ClaimFault(claims[mapped[n]]) # "ok"}
  IN  IF bad = {} THEN "ok"
      ELSE ClaimFault(claims[mapped[CHOOSE n \in bad : \A m \in bad : n <= m]])

\* FAILURE, and the status resolveScope answers each failure with.
Status(code) ==
  CASE code = "ok" -> 200
    [] code \in {"E_TENANT_CLAIM_MISSING", "E_TENANT_VALUE_UNSAFE"} -> 403
    [] code \in {"E_CONFIG", "E_SETTING_NAME_UNSAFE"} -> 500
    [] OTHER -> 401

\* resolveScope in multi-tenant mode; no token at all is a 401 of its own.
ResolveScope(token, config) ==
  LET verified == VerifyToken(token, config)
  IN  Status(IF verified # "ok" THEN verified ELSE TenantScope(token.claims, config.mapped))
=============================================================================
