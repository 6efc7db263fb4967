--------------------------- MODULE PythonDecrypt ---------------------------
(***************************************************************************)
(* decrypt of impl/python/hydralock/ops/decrypt.py with its wrapper and    *)
(* metadata modules, over the containers of module Container.  Where the   *)
(* sections lie is the business of module PythonReader.                    *)
(***************************************************************************)
EXTENDS Container

(* unwrap of a wrapper module.  (Parameters Argon2 refuses raise as well.) *)
PyGives(c, i, key) == StanzaGives(c, i, key)

(* _try_unwrap_fmk: what one wrapper raises, the loop passes over.  (The   *)
(* variant gives up at the first wrapper.)                                 *)
PyFirstOnly(c, key)    == PyGives(c, 1, key)
PyUnwrappedFmk(c, key) ==
  UNION {PyGives(c, i, key) :
           i \in {j \in DOMAIN c.wraps : \A k \in 1 .. j - 1 : PyGives(c, k, key) = {}}}

(* decrypt_metadata takes the items by position and tests none of them.    *)
PyName(items) == OptionOf(items[2])

PyRaises           == [status |-> "raised", text |-> "", name |-> <<>>]
PyOpens(text, name) == [status |-> "ok", text |-> text, name |-> name]

(* decrypt: the manifest root is not compared with the payload, and there  *)
(* is no limit on the size.                                                *)
PyDecryptWith(c, fmk, uuid) ==
  IF \/ ~Verifies(c, fmk, uuid)
     \/ ~MetadataOpens(c.metadata, fmk, uuid, c.header)
     \/ c.payload.fmk # fmk
     \/ c.payload.uuid # uuid
  THEN PyRaises
  ELSE PyOpens(c.payload.text, PyName(c.metadata.plain))

PyDecrypt(c, key) ==
  LET fmks == PyUnwrappedFmk(c, key)
  IN  IF ~LayoutHolds(c) \/ ~DistinctIds(c.wraps) \/ fmks = {} THEN PyRaises
      ELSE PyDecryptWith(c, CHOOSE fmk \in fmks : TRUE, FileUuid(c))

=============================================================================
