--------------------------- MODULE FragmentStore ---------------------------
(***************************************************************************)
(* What a storage node promises: a map from keys to encrypted fragments in *)
(* which a fragment appears at once and complete, is never replaced, and   *)
(* changes only under a permit the Oracle signed.  Entries that are not    *)
(* regular files (Symlink) are never touched.  StorageNode implements it.  *)
(***************************************************************************)
CONSTANTS Keys, Bodies, Scopes, RequireAuth, NoFile, Symlink, None

VARIABLES content,  \* key -> fragment, NoFile or Symlink
          permits   \* the scopes of the tokens accepted so far

Init == content \in [Keys -> {NoFile, Symlink}] /\ permits = {}

\* A write or delete token is accepted.
Accept ==
  /\ \E s \in Scopes : permits' = permits \cup {s}
  /\ UNCHANGED content

MayStore(k, b) ==
  RequireAuth => \E s \in permits :
    s.op = "write" /\ s.key = k /\ s.hash \in {None, b}

MayRemove(k) ==
  RequireAuth => \E s \in permits : s.op = "delete" /\ s.key = k

\* A complete fragment appears under a key that had none.
Put(k, b) ==
  /\ content[k] = NoFile
  /\ MayStore(k, b)
  /\ content' = [content EXCEPT ![k] = b]
  /\ UNCHANGED permits

Remove(k) ==
  /\ content[k] \in Bodies
  /\ MayRemove(k)
  /\ content' = [content EXCEPT ![k] = NoFile]
  /\ UNCHANGED permits

Next ==
  \/ Accept
  \/ \E k \in Keys, b \in Bodies : Put(k, b)
  \/ \E k \in Keys : Remove(k)

Spec == Init /\ [][Next]_<<content, permits>>
=============================================================================
