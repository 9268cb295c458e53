----------------------------- MODULE RedisStore -----------------------------
(***************************************************************************)
(* The commands of the internal database that the manifests are built on,  *)
(* as functions of the key space: a database maps each existing key to its *)
(* value, a hash is a function from its fields, a set key is a set.  Each  *)
(* command is atomic; what a manifest does in several commands is not.     *)
(* The Async form of a command has the same effect, later.                 *)
(***************************************************************************)
EXTENDS Naturals, FiniteSets

Put(db, key, value) == [k \in DOMAIN db \cup {key} |-> IF k = key THEN value ELSE db[k]]

\* A deleted key is gone, and so is a hash or a set that loses its last member.
DelKey(db, key) == [k \in DOMAIN db \ {key} |-> db[k]]
PutUnlessEmpty(db, key, value) ==
    IF DOMAIN value = {} THEN DelKey(db, key) ELSE Put(db, key, value)

Exists(db, key) == key \in DOMAIN db

HGetAll(db, key) == IF Exists(db, key) THEN db[key] ELSE [f \in {} |-> f]
HExists(db, key, field) == field \in DOMAIN HGetAll(db, key)

\* The value of an existing field; the callers guard it with HExists.
HGet(db, key, field) == HGetAll(db, key)[field]

HSet(db, key, field, value) ==
    Put(db, key, [f \in DOMAIN HGetAll(db, key) \cup {field} |->
                    IF f = field THEN value ELSE HGetAll(db, key)[f]])

\* HDEL with an empty list of fields sends no command.
HDel(db, key, fields) ==
    PutUnlessEmpty(db, key, [f \in DOMAIN HGetAll(db, key) \ fields |-> HGetAll(db, key)[f]])

SMembers(db, key) == IF Exists(db, key) THEN db[key] ELSE {}
SIsMember(db, key, m) == m \in SMembers(db, key)
SAdd(db, key, ms) == IF ms = {} THEN db ELSE Put(db, key, SMembers(db, key) \cup ms)
SRem(db, key, ms) ==
    IF SMembers(db, key) \ ms = {} THEN DelKey(db, key) ELSE Put(db, key, SMembers(db, key) \ ms)
=============================================================================
