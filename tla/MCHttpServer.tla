---------------------------- MODULE MCHttpServer ----------------------------
(* Two requests at once.  Every documented path and its near misses (one   *)
(* token left out, doubled, or put at the end; up to three dots for a      *)
(* parameter) with the key; every documented path with another method, and *)
(* without the key; and POST /print with bodies around the limit, the      *)
(* memory and the room in /tmp, an empty file, and one that is no PDF.     *)
EXTENDS HttpServer, TLC

CONSTANTS c1, c2

Body(type, size, form, whole, fields, file) ==
  [type |-> type, size |-> size, form |-> form, whole |-> whole,
   fields |-> fields, file |-> file, pdf |-> TRUE]

NoBody   == Body("malformed", 0, 0, TRUE, TRUE, FALSE)
GoodBody == Body("multipart", 3, 1, TRUE, TRUE, TRUE)

Asks(methods, paths, keys, bodies) ==
  [method : methods, path : paths, key : keys, body : bodies]

(* One path for each template, the parameters with an escaped slash.       *)
Paths ==
  { t.before \o (IF t.param THEN <<"q", "%2F">> ELSE << >>) \o t.after :
      t \in Documented }

Without(p, i) == SubSeq(p, 1, i - 1) \o SubSeq(p, i + 1, Len(p))
Doubled(p, i) == SubSeq(p, 1, i) \o SubSeq(p, i, Len(p))

NearMisses ==
  { p \in UNION { { Without(p, i) : i \in 2 .. Len(p) } \cup
                  { Doubled(p, i) : i \in 1 .. Len(p) } \cup
                  { p \o <<"/">>, p \o <<"/", "q">>, p \o <<"ers">> } : p \in Paths } :
      p # << >> }

Dotted ==
  { t.before \o dots \o t.after : t \in { t \in Documented : t.param },
                                  dots \in { <<".">>, <<".", ".">>, <<".", ".", ".">> } }

Docs == { <<"/", "docs">>, <<"/", "docs", "/">>, <<"/", "openapi.yaml">> }

Uploads ==
  { GoodBody,
    Body("multipart", MaxUploadBytes, FormRoom, TRUE, TRUE, TRUE),
    Body("multipart", MaxUploadBytes + 1, 1, TRUE, TRUE, TRUE),
    Body("multipart", MaxUploadBytes + FormRoom + 1, 0, TRUE, TRUE, TRUE),
    Body("multipart", MaxUploadBytes, FormRoom + 1, TRUE, FALSE, TRUE),
    Body("multipart", MaxUploadBytes, 1, FALSE, TRUE, TRUE),
    Body("multipart", MaxUploadBytes, 1, TRUE, FALSE, TRUE),
    Body("multipart", 0, 1, TRUE, TRUE, FALSE),
    Body("multipart", 0, 1, TRUE, TRUE, TRUE),
    [Body("multipart", MaxUploadBytes, 1, TRUE, TRUE, TRUE) EXCEPT !.pdf = FALSE],
    Body("other", 3, 0, TRUE, TRUE, FALSE),
    NoBody }

MCAsked ==
  Asks({"GET", "POST"}, Paths \cup Docs, {"right"}, {GoodBody})
    \cup Asks({"GET"}, NearMisses \cup Dotted, {"right"}, {NoBody})
    \cup Asks({"OPTIONS"}, Paths, {"none"}, {NoBody})
    \cup Asks({"GET"}, Paths, {"none"}, {NoBody})
    \cup Asks({"POST"}, {<<"/", "pr", "int">>}, {"none", "wrong"}, {GoodBody})
    \cup Asks({"POST"}, {<<"/", "pr", "int">>}, {"right"}, Uploads)

Symmetric == Permutations({c1, c2})
=============================================================================
