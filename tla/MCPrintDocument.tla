-------------------------- MODULE MCPrintDocument ---------------------------
(* PrintDocument with few requests at once, over the documents that matter *)
(* to the code: at each boundary of the size checks, without the header,   *)
(* with refused options, with more form fields than there is room for.     *)
EXTENDS PrintDocument, TLC

CONSTANTS h1, h2, p1, p2, mono, photo, refused

Document(size, pdf, form, dest) ==
  [size |-> size, pdf |-> pdf, form |-> form, dest |-> dest]

(* Sizes around HeaderLen = 2 and the MaxUploadBytes of the configuration. *)
MCDocuments ==
  { Document(MaxUploadBytes, TRUE, 1, mono), Document(HeaderLen, TRUE, FormRoom, photo),
    Document(MaxUploadBytes + 1, TRUE, 1, mono), Document(0, TRUE, 1, mono),
    Document(HeaderLen - 1, TRUE, 1, mono), Document(3, FALSE, 1, mono),
    Document(3, TRUE, 1, refused), Document(MaxUploadBytes, TRUE, FormRoom + 1, mono) }

(* Two documents are enough where only the interleaving is in question.    *)
FewDocuments ==
  { Document(3, TRUE, 1, mono), Document(3, FALSE, 1, photo) }

Symmetric == Permutations({h1, h2}) \cup Permutations({p1, p2})

MCOwners == Handlers \cup {Foreign}
=============================================================================
