---------------------------- MODULE ObjectStore ----------------------------
(* Beast FS: content-addressed objects with reference counts (storage/cas.rs),
   the token registry (fs/token.rs), the path cache (fs/path_cache.rs), the
   path hashes of the Merkle tree (fs/merkle.rs), the file operations that tie
   them together (fs/file_ops.rs) and the transfer of files between processes
   (fs/ring_transfer.rs).

   An operation of FileSystem takes &mut self, so each is one action; so is one
   of RingTransferManager, whose rings are BeastSPSCRings (see SpscRing).
   Token ids are random 128-bit numbers: they are taken to be fresh.  Children
   lists, node cache and root hash are not kept: no token is ever a Folder, so
   no operation reads them.

     objects   hash -> [data, ref_count]
     bytes     total_bytes
     tokens    id -> [path, hash, owner, rights, origin]; origin is history:
               the operation that made the token
     pathTo    path_to_token            pathOf    token_to_path
     hashAt    path_to_hash
     xfer      [requests, received, responses, active, next] *)
EXTENDS Integers, Sequences, FiniteSets, Functions, Maps

CONSTANTS FsPaths,     \* canonical paths
          Parent,      \* PathNormalizer::parent: path -> path, not in FsPaths
                       \* at the root
          Data,        \* what is saved: data -> length
          HashOf,      \* Hash::of_data, the first 32 bytes: data -> hash
          MaxBytes,    \* max_bytes; 0 is no limit
          Users,
          Rights,      \* the permission sets tokens are given
          RingSlots,   \* capacity of the two transfer rings
          MaxTokens,   \* bound: tokens registered at one time
          MaxRequests  \* bound: transfers sent

ASSUME StoreAssumption ==
  /\ Data \in [DOMAIN Data -> Nat] /\ DOMAIN HashOf = DOMAIN Data
  /\ MaxBytes \in Nat /\ MaxTokens \in Nat

VARIABLES objects, bytes, tokens, pathTo, pathOf, hashAt, xfer

fileVars == <<objects, bytes, tokens, pathTo, pathOf, hashAt>>
storeVars == <<fileVars, xfer>>

-----------------------------------------------------------------------------
(* cas.rs: operators on s = [objects, bytes] *)

\* The bytes of the objects given.
Stored(objs) == SumFunction([h \in DOMAIN objs |-> Data[objs[h].data]])

\* What garbage_collect keeps.  Only objects with ref_count 0 go, whatever the
\* age test says: its cutoff is before boot and wraps in the first 30 days, so
\* every object passes the test.  The code stops once it has freed what is
\* needed; the order it goes in is left out, as there is never anything to
\* remove (StoreExact).
garbage_collect(s) ==
  LET kept == {h \in DOMAIN s.objects : s.objects[h].ref_count # 0}
      gone == DOMAIN s.objects \ kept
  IN  [objects |-> Restrict(s.objects, kept),
       bytes |-> s.bytes - Stored(Restrict(s.objects, gone))]

TooBig(s, data) == MaxBytes > 0 /\ s.bytes + Data[data] > MaxBytes

\* put of a hash that is there counts one more reference, and the new data is
\* not looked at.
put(s, data) ==
  LET h == HashOf[data]
      room == IF TooBig(s, data) THEN garbage_collect(s) ELSE s
  IN  IF h \in DOMAIN s.objects
      THEN [ok |-> TRUE, bytes |-> s.bytes,
            objects |-> [s.objects EXCEPT ![h].ref_count = @ + 1]]
      ELSE IF TooBig(room, data)
      THEN [ok |-> FALSE, bytes |-> room.bytes, objects |-> room.objects]
      ELSE [ok |-> TRUE, bytes |-> room.bytes + Data[data],
            objects |-> With(room.objects, h, [data |-> data, ref_count |-> 1])]

ref_inc(s, h) ==
  IF h \in DOMAIN s.objects
  THEN [s EXCEPT !.objects[h].ref_count = @ + 1] ELSE s

\* The object goes one reference too early: mutant.
ref_dec_early(s, h) ==
  IF h \notin DOMAIN s.objects THEN s
  ELSE IF s.objects[h].ref_count =< 2
  THEN [objects |-> Without(s.objects, h),
        bytes |-> s.bytes - Data[s.objects[h].data]]
  ELSE [s EXCEPT !.objects[h].ref_count = @ - 1]

\* The last reference takes the object with it.
ref_dec(s, h) ==
  IF h \notin DOMAIN s.objects THEN s
  ELSE IF s.objects[h].ref_count = 1
  THEN [objects |-> Without(s.objects, h),
        bytes |-> s.bytes - Data[s.objects[h].data]]
  ELSE [s EXCEPT !.objects[h].ref_count = @ - 1]

-----------------------------------------------------------------------------
(* path_cache.rs: operators on c = [to, of].  insert does not look at what the
   path referred to before: the old token keeps its reverse entry. *)
insert(c, path, id) == [to |-> With(c.to, path, id), of |-> With(c.of, id, path)]

\* The old path stays: mutant.
update_path_keeps_old(c, old, new) == insert(c, new, c.to[old])

update_path(c, old, new) ==
  insert([c EXCEPT !.to = Without(@, old)], new, c.to[old])

remove(c, path) ==
  [to |-> Without(c.to, path), of |-> Without(c.of, c.to[path])]

-----------------------------------------------------------------------------
(* token.rs and merkle.rs *)
FreshId(ids) == CHOOSE i \in 1 .. MaxTokens : i \notin ids

check_permission(id, right, user) ==
  tokens[id].owner = user /\ right \in tokens[id].rights

\* hash_file: the file's hash depends on its path and its content hash.
hash_file(token) == <<token.path, token.hash>>

\* update_hash writes the hash at the path the token records.
UpdateHash(hashes, toks, id) ==
  With(hashes, toks[id].path, hash_file(toks[id]))

\* The same for the token that the parent path resolves to, if it does.  The
\* code unwraps the lookup of that token.
UpdateParent(hashes, toks, to, path) ==
  IF Parent[path] \in DOMAIN to
  THEN UpdateHash(hashes, toks, to[Parent[path]]) ELSE hashes

-----------------------------------------------------------------------------
(* file_ops.rs *)
Store == [objects |-> objects, bytes |-> bytes]
Cache == [to |-> pathTo, of |-> pathOf]

SetStore(s) == objects' = s.objects /\ bytes' = s.bytes
SetCache(c) == pathTo' = c.to /\ pathOf' = c.of

CanRegister == Cardinality(DOMAIN tokens) < MaxTokens

StoreInit ==
  /\ objects = <<>> /\ bytes = 0 /\ tokens = <<>>
  /\ pathTo = <<>> /\ pathOf = <<>> /\ hashAt = <<>>
  /\ xfer = [requests |-> <<>>, received |-> {}, responses |-> <<>>,
             active |-> {}, next |-> 1]

\* The file's own hash is not refreshed after the parent's: mutant.
SaveFile_parent_only(path, data, user, rights) ==
  LET stored == put(Store, data)
      id == FreshId(DOMAIN tokens)
      token == [path |-> path, hash |-> HashOf[data], owner |-> user,
                rights |-> rights, origin |-> "save"]
  IN  /\ CanRegister /\ SetStore(stored) /\ stored.ok
      /\ tokens' = With(tokens, id, token)
      /\ SetCache(insert(Cache, path, id))
      /\ hashAt' = UpdateParent(hashAt, tokens', pathTo', path)
      /\ UNCHANGED xfer

SaveFile(path, data, user, rights) ==
  LET stored == put(Store, data)
      id == FreshId(DOMAIN tokens)
      token == [path |-> path, hash |-> HashOf[data], owner |-> user,
                rights |-> rights, origin |-> "save"]
  IN  /\ CanRegister /\ SetStore(stored) /\ stored.ok
      /\ tokens' = With(tokens, id, token)
      /\ SetCache(insert(Cache, path, id))
      /\ hashAt' = UpdateHash(UpdateParent(hashAt, tokens', pathTo', path),
                              tokens', id)
      /\ UNCHANGED xfer

\* OutOfSpace: only put's garbage collection took place.
SaveFails(data) ==
  LET stored == put(Store, data)
  IN  ~stored.ok /\ SetStore(stored)
      /\ UNCHANGED <<tokens, pathTo, pathOf, hashAt, xfer>>

MoveFile(old, new, user) ==
  /\ old \in DOMAIN pathTo /\ check_permission(pathTo[old], "write", user)
  /\ LET id == pathTo[old] IN
     /\ SetCache(update_path(Cache, old, new))
     /\ tokens' = [tokens EXCEPT ![id].path = new]
     /\ hashAt' = LET left == UpdateParent(hashAt, tokens', pathTo', old)
                      joined == UpdateParent(left, tokens', pathTo', new)
                  IN  UpdateHash(joined, tokens', id)
  /\ UNCHANGED <<objects, bytes, xfer>>

\* copy_file refreshes the parent's hash and not that of the new token.
CopyFile(src, dst, user) ==
  /\ src \in DOMAIN pathTo /\ check_permission(pathTo[src], "read", user)
  /\ CanRegister
  /\ LET source == tokens[pathTo[src]]
         id == FreshId(DOMAIN tokens)
     IN  /\ SetStore(ref_inc(Store, source.hash))
         /\ tokens' = With(tokens, id, [source EXCEPT !.path = dst, !.owner = user,
                                                   !.origin = "copy"])
         /\ SetCache(insert(Cache, dst, id))
         /\ hashAt' = UpdateParent(hashAt, tokens', pathTo', dst)
  /\ UNCHANGED xfer

DeleteFile(path, user) ==
  /\ path \in DOMAIN pathTo /\ check_permission(pathTo[path], "delete", user)
  /\ SetStore(ref_dec(Store, tokens[pathTo[path]].hash))
  /\ hashAt' = UpdateParent(hashAt, tokens, pathTo, path)
  /\ SetCache(remove(Cache, path))
  /\ tokens' = Without(tokens, pathTo[path])
  /\ UNCHANGED xfer

-----------------------------------------------------------------------------
(* ring_transfer.rs *)

\* The transfer is recorded as active before the request is enqueued, and stays
\* recorded when the ring is full.
SendFile(id, rights, user) ==
  /\ xfer.next =< MaxRequests /\ check_permission(id, "share", user)
  /\ xfer' = [xfer EXCEPT
       !.next = @ + 1, !.active = @ \cup {xfer.next},
       !.requests = IF Len(@) < RingSlots
                    THEN Append(@, [id |-> xfer.next, source |-> id,
                                    rights |-> rights])
                    ELSE @]
  /\ UNCHANGED fileVars

ReceiveTransfers ==
  /\ xfer.requests # <<>>
  /\ xfer' = [xfer EXCEPT !.received = @ \cup Range(xfer.requests),
                          !.requests = <<>>]
  /\ UNCHANGED fileVars

Respond(request, x) ==
  [x EXCEPT !.received = @ \ {request},
            !.responses = IF Len(@) < RingSlots THEN Append(@, request.id) ELSE @]

\* The new token is registered before the response is enqueued, and stays
\* registered when that fails.  Its content gets no reference of its own.  A
\* request with an expiry may be refused at any time and is then as it was.
AcceptTransfer(request, user, path) ==
  /\ CanRegister /\ request.source \in DOMAIN tokens
  /\ tokens' = With(tokens, FreshId(DOMAIN tokens),
                   [path |-> path, hash |-> tokens[request.source].hash,
                    owner |-> user, rights |-> request.rights,
                    origin |-> "accept"])
  /\ xfer' = Respond(request, xfer)
  /\ UNCHANGED <<objects, bytes, pathTo, pathOf, hashAt>>

DeclineTransfer(request) == xfer' = Respond(request, xfer) /\ UNCHANGED fileVars

\* The sender takes the responses and cleans up their transfers.
CheckResponses ==
  /\ xfer.responses # <<>>
  /\ xfer' = [xfer EXCEPT !.active = @ \ Range(xfer.responses),
                          !.responses = <<>>]
  /\ UNCHANGED fileVars

FileNext ==
  \E user \in Users, path \in FsPaths :
    \/ \E data \in DOMAIN Data, rights \in Rights :
         SaveFile(path, data, user, rights)
    \/ \E data \in DOMAIN Data : SaveFails(data)
    \/ \E new \in FsPaths : MoveFile(path, new, user) \/ CopyFile(path, new, user)
    \/ DeleteFile(path, user)

TransferNext ==
  \/ \E user \in Users, id \in DOMAIN tokens, rights \in Rights :
       SendFile(id, rights, user)
  \/ ReceiveTransfers \/ CheckResponses
  \/ \E request \in xfer.received :
       \/ \E user \in Users, path \in FsPaths : AcceptTransfer(request, user, path)
       \/ DeclineTransfer(request)

StoreNext == FileNext \/ TransferNext

StoreSpec == StoreInit /\ [][StoreNext]_storeVars

-----------------------------------------------------------------------------
(* Properties *)

\* The tokens that file_ops made and has not revoked, by content.
Referring(h) == {id \in DOMAIN tokens :
                   tokens[id].hash = h /\ tokens[id].origin # "accept"}

\* The store is exact: every object has one reference per token that save_file
\* or copy_file made for it, none is kept without a reference (so
\* garbage_collect never finds anything), every such token has its content, and
\* total_bytes is what is stored.  In particular content stays as long as one
\* path refers to it, whichever of its copies are deleted or moved.
StoreExact ==
  /\ \A h \in DOMAIN objects :
       objects[h].ref_count = Cardinality(Referring(h)) /\ Referring(h) # {}
  /\ \A id \in DOMAIN tokens :
       tokens[id].origin # "accept" => tokens[id].hash \in DOMAIN objects
  /\ bytes = Stored(objects)

\* A path that resolves leads to a registered token that records this path, and
\* the reverse map leads back.  The unwrap of a parent's lookup relies on it,
\* through any order of saves over existing paths, moves, copies and deletes.
PathsAgree ==
  \A path \in DOMAIN pathTo :
    /\ pathTo[path] \in DOMAIN tokens
    /\ tokens[pathTo[path]].path = path
    /\ pathTo[path] \in DOMAIN pathOf /\ pathOf[pathTo[path]] = path

\* The hash kept for a path is the hash of the file now at that path, moved
\* there or saved over an older one, as long as no copy was put there.
PathHashCurrent ==
  \A path \in DOMAIN pathTo :
    tokens[pathTo[path]].origin = "save" =>
      path \in DOMAIN hashAt /\ hashAt[path] = hash_file(tokens[pathTo[path]])

\* ring_transfer.rs says the accepted token "points to SAME content!": the
\* recipient's token has content as long as it is registered.
AcceptedKeepsContent ==
  \A id \in DOMAIN tokens :
    tokens[id].origin = "accept" => tokens[id].hash \in DOMAIN objects
=============================================================================
