-------------------------------- MODULE Wire --------------------------------
(***************************************************************************)
(* The wire edit of crates/function/src/protowire.rs: a request is         *)
(* forwarded to the guest as the caller's own bytes, the credentials it is *)
(* not granted left out of them and nothing encoded anew.                  *)
(*                                                                         *)
(* A message is its fields by their place in the caller's bytes: what is  *)
(* left out leaves the others where they were, and a reader goes by their  *)
(* order alone.  A field is a record of its name (the field's number), its *)
(* wire type and its content; the content of a credentials field, a map    *)
(* entry, is fields by their place again.  Groups, the one wire type the   *)
(* edit cannot skip, stand in an unknown field of a message or of an       *)
(* entry; a decoder skips them.                                            *)
(***************************************************************************)
EXTENDS Naturals, FiniteSetsExt, Functions

CONSTANTS None, NoName  \* no key at all, and the key a decoder reads then

Field(name, wire, content) == [name |-> name, wire |-> wire, content |-> content]

\* skip_value reaches the end of every field.
Skippable(msg) == \A i \in DOMAIN msg : msg[i].wire # "group"

Named(msg, name) == Restrict(msg, {i \in DOMAIN msg : msg[i].name = name})

\* The last of some fields.
Final(fields) == fields[Max(DOMAIN fields)]

\* fault: the first occurrence of a key is the key
FirstKey(entry) ==
  LET keys == Named(entry, "key")
  IN  IF ~Skippable(entry) \/ DOMAIN keys = {} THEN None ELSE keys[Min(DOMAIN keys)].content

\* map_entry_key: the last occurrence of the key; none when there is no key
\* or the entry cannot be skipped through.
MapEntryKey(entry) ==
  LET keys == Named(entry, "key")
  IN  IF ~Skippable(entry) \/ DOMAIN keys = {} THEN None ELSE Final(keys).content

\* retain_credentials: None when the message cannot be skipped through.
RetainCredentials(msg, forwarded) ==
  IF ~Skippable(msg) THEN None
  ELSE Restrict(msg, {i \in DOMAIN msg : msg[i].name = "credentials" =>
                        msg[i].wire = "len" /\ MapEntryKey(msg[i].content) \in forwarded})

-----------------------------------------------------------------------------
(* A decoder's reading of a message: the last occurrence counts, of a key in *)
(* an entry as of an entry with a key, and unknown fields count for nothing. *)

DecodedKey(entry) ==
  LET keys == Named(entry, "key")
  IN  IF DOMAIN keys = {} THEN NoName ELSE Final(keys).content

DecodedValue(entry) ==
  LET values == Named(entry, "value")
  IN  IF DOMAIN values = {} THEN None ELSE Final(values).content

\* The entries of a key.
EntriesOf(msg, k) ==
  LET entries == Named(msg, "credentials")
  IN  Restrict(entries, {i \in DOMAIN entries : DecodedKey(entries[i].content) = k})

DecodedKeys(msg) == {DecodedKey(f.content) : f \in Range(Named(msg, "credentials"))}

DecodedCredentials(msg) ==
  [k \in DecodedKeys(msg) |-> DecodedValue(Final(EntriesOf(msg, k)).content)]
=============================================================================
