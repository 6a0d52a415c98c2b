------------------------------ MODULE LuaTextures -----------------------------
(***************************************************************************)
(* The asynchronous loads of resource_manager.cpp and the bindings of      *)
(* lua_textures.cpp: a worker decodes an image, the frame that polls its   *)
(* result gives the pixels to the texture of that name, and the pixels of  *)
(* byte loads and cubemaps are uploaded in pieces over several frames.     *)
(* Scripts may meanwhile load, change or drop the same texture.            *)
(***************************************************************************)
EXTENDS LuaCallbacks, SequencesExt

CONSTANTS
    MaxLoads,               \* bound: asynchronous loads
    TextureNames,           \* names of textures; a cubemap's is its load
    Pieces                  \* bound: calls that upload the pixels of one image

ASSUME LoadBounds == MaxLoads \in Nat /\ Pieces \in Nat \ {0}

VARIABLES
    loads,                  \* history: [kind, name, cb] of each load
    load_failed,            \* history: loads whose result was an error
    pending_loads,          \* pendingTextures, -TextureBytes, -Cubemaps, -Audio
    load_results,           \* finished jobs [id, ok] in the order they finished
    textures,               \* Texture2D of each name
    cubemaps,               \* TextureCubemap of each load
    texture_uploads,        \* pendingTextureUploads
    cubemap_uploads         \* pendingCubemapUploads

ltVars == <<loads, load_failed, pending_loads, load_results, textures, cubemaps,
            texture_uploads, cubemap_uploads>>

Loads == 1..MaxLoads
Kinds == {"file", "bytes", "cubemap", "audio"}
NoLoad == 0

\* sized: width and height are set; pixels: the load whose image_data it holds;
\* done: the pieces uploaded of it.
Texture(ready, sized, uploading, pixels, done) ==
    [ready |-> ready, sized |-> sized, uploading |-> uploading,
     pixels |-> pixels, done |-> done]
NewTexture == Texture(FALSE, FALSE, FALSE, NoLoad, 0)

LtInit ==
    /\ loads = <<>>
    /\ load_failed = {}
    /\ pending_loads = {}
    /\ load_results = <<>>
    /\ textures = [name \in TextureNames |-> NewTexture]
    /\ cubemaps = [id \in Loads |-> NewTexture]
    /\ texture_uploads = <<>>
    /\ cubemap_uploads = <<>>

\* The load functions: the callback, the texture, then the job.
LoadAsync(kind, name, withCallback) ==
    /\ LuaRuns
    /\ Len(loads) < MaxLoads
    /\ Reregister({}, IF withCallback THEN 1 ELSE 0)
    /\ LET id == Len(loads) + 1
           cb == IF withCallback THEN next_id ELSE NoCallback
       IN  /\ loads' = Append(loads, [kind |-> kind, name |-> name, cb |-> cb])
           /\ pending_loads' = pending_loads \cup {id}
    /\ textures' = IF kind \in {"file", "bytes"}
                   THEN [textures EXCEPT ![name].ready = FALSE]
                   ELSE textures
    /\ UNCHANGED <<queue, stack, own, called, load_failed, load_results, cubemaps,
                   texture_uploads, cubemap_uploads>>

\* A worker of the pool finishes the job of a load.
LoadFinish(id, ok) ==
    /\ id \in pending_loads
    /\ \A i \in DOMAIN load_results : load_results[i].id # id
    /\ load_results' = Append(load_results, [id |-> id, ok |-> ok])
    /\ UNCHANGED <<cbVars, loads, load_failed, pending_loads, textures, cubemaps,
                   texture_uploads, cubemap_uploads>>

\* What a script does to a texture itself: load it at once, allocate it,
\* update it (an error if it has no size), drop it.
LoadedAtOnce == Texture(TRUE, TRUE, FALSE, NoLoad, 0)
Allocated(t) == [t EXCEPT !.ready = TRUE, !.sized = TRUE, !.uploading = FALSE, !.done = 0]
Updated(t) == IF t.sized THEN [t EXCEPT !.ready = TRUE] ELSE t

ChangeTexture(name) ==
    /\ LuaRuns
    /\ \E t \in {LoadedAtOnce, Allocated(textures[name]), Updated(textures[name]), NewTexture} :
          textures' = [textures EXCEPT ![name] = t]
    /\ UNCHANGED <<cbVars, loads, load_failed, pending_loads, load_results, cubemaps,
                   texture_uploads, cubemap_uploads>>

\* TextureCubemap's drop, and its load-faces.
ChangeCubemap(id) ==
    /\ LuaRuns
    /\ id \in DOMAIN loads
    /\ loads[id].kind = "cubemap"
    /\ \E t \in {NewTexture, [cubemaps[id] EXCEPT !.ready = TRUE]} :
          cubemaps' = [cubemaps EXCEPT ![id] = t]
    /\ UNCHANGED <<cbVars, loads, load_failed, pending_loads, load_results, textures,
                   texture_uploads, cubemap_uploads>>

----------------------------------------------------------------------------
(* processTextureJobs and processAudioJobs, over the state they work on:   *)
(* st has a texture map, the entries of an upload queue that are ahead,    *)
(* those that stay in it and those whose upload ends.                      *)

\* The items for the callbacks of the loads in ids.
Ready(ids) ==
    LET mine == At(ids, {i \in DOMAIN ids : loads[ids[i]].cb # NoCallback})
    IN  [k \in DOMAIN mine |-> Item(loads[mine[k]].cb, Event("load", mine[k], "ready", 0))]

\* poll_kind_owner: the oldest max results of a kind, all of them if max = 0.
PolledOf(kind, max) ==
    LET mine == At(load_results,
                   {i \in DOMAIN load_results : loads[load_results[i].id].kind = kind})
    IN  IF max = 0 \/ max > Len(mine) THEN mine ELSE SubSeq(mine, 1, max)

\* upload_rows, upload_faces: nothing to be done unless an upload is going on.
Uploaded(t) ==
    IF ~t.uploading \/ t.pixels = NoLoad THEN t
    ELSE IF t.done + 1 < Pieces THEN [t EXCEPT !.done = @ + 1]
    ELSE Texture(TRUE, t.sized, FALSE, NoLoad, 0)

EndsUpload(t) == t.uploading /\ t.pixels # NoLoad /\ t.done + 1 >= Pieces

UploadsOf(map, uploads) == [map |-> map, ahead |-> uploads, stay |-> <<>>, ended |-> <<>>]

\* The next entry ahead, whose texture is at key[id].
UploadNext(key, st) ==
    IF st.ahead = <<>> THEN st
    ELSE LET id == Head(st.ahead)
             ends == EndsUpload(st.map[key[id]])
         IN  [map |-> [st.map EXCEPT ![key[id]] = Uploaded(@)],
              ahead |-> Tail(st.ahead),
              stay |-> IF ends THEN st.stay ELSE Append(st.stay, id),
              ended |-> IF ends THEN Append(st.ended, id) ELSE st.ended]

Succeeded(results) ==
    LET ok == At(results, {i \in DOMAIN results : results[i].ok})
    IN  [i \in DOMAIN ok |-> ok[i].id]

Latest(ids, name) ==
    {ids[i] : i \in {i \in DOMAIN ids :
                        /\ loads[ids[i]].name = name
                        /\ \A j \in i + 1 .. Len(ids) : loads[ids[j]].name # name}}

\* A texture loaded from a file is ready at once, one from bytes starts to be
\* uploaded; of two for one name the latter counts.
Applied(t, name, files, decoded) ==
    LET loaded == IF Latest(files, name) = {} THEN t ELSE LoadedAtOnce
    IN  IF Latest(decoded, name) = {} THEN loaded
        ELSE Texture(FALSE, TRUE, TRUE, CHOOSE id \in Latest(decoded, name) : TRUE, 0)

\* The frame polls each kind with its limit, gives out the pixels, and uploads
\* a piece for two textures and one cubemap; what failed is only logged.
ResourcesFrame ==
    LET polled == [kind \in Kinds |-> PolledOf(kind, IF kind = "bytes" THEN 2 ELSE 0)]
        taken == UNION {ToSet(polled[kind]) : kind \in Kinds}
        ids == [kind \in Kinds |-> Succeeded(polled[kind])]
        name == [id \in DOMAIN loads |-> loads[id].name]
        itself == [id \in DOMAIN loads |-> id]
        \* The budgets: two textures and one cubemap.
        texture == UploadNext(name, UploadNext(name, UploadsOf(
                      [n \in TextureNames |-> Applied(textures[n], n, ids["file"], ids["bytes"])],
                      texture_uploads \o ids["bytes"])))
        cubemap == UploadNext(itself, UploadsOf(
                      [id \in Loads |->
                          IF id \in ToSet(ids["cubemap"]) THEN Texture(FALSE, TRUE, TRUE, id, 0)
                          ELSE cubemaps[id]],
                      cubemap_uploads \o ids["cubemap"]))
    IN  /\ stack = <<>>
        /\ load_results' = At(load_results, {i \in DOMAIN load_results : load_results[i] \notin taken})
        /\ pending_loads' = pending_loads \ {r.id : r \in taken}
        /\ load_failed' = load_failed \cup {r.id : r \in {r \in taken : ~r.ok}}
        /\ textures' = texture.map
        /\ cubemaps' = cubemap.map
        /\ texture_uploads' = texture.stay \o texture.ahead
        /\ cubemap_uploads' = cubemap.stay \o cubemap.ahead
        /\ queue' = queue \o Ready(ids["file"] \o texture.ended \o cubemap.ended
                                    \o ids["audio"])
        /\ UNCHANGED <<next_id, registry, deferred, retired, stack, own, called, loads>>

\* clearPending and clear, at the engine's shutdown; the pool is shut down after.
ResourcesClear ==
    /\ pending_loads' = {}
    /\ load_results' = <<>>
    /\ textures' = [name \in TextureNames |-> NewTexture]
    /\ cubemaps' = [id \in Loads |-> NewTexture]
    /\ texture_uploads' = <<>>
    /\ cubemap_uploads' = <<>>

----------------------------------------------------------------------------
\* A load is pending, waits for its upload, or has been told to its callback,
\* in exactly one of these places unless it failed: whichever of several loads
\* of one name finishes or is uploaded first, and whatever a script does to
\* the texture meanwhile, none is lost or told twice.
LoadsAnsweredOnce ==
    \A id \in DOMAIN loads :
        (loads[id].cb # NoCallback) =>
            Cardinality({id} \cap pending_loads)
            + Cardinality({i \in DOMAIN texture_uploads : texture_uploads[i] = id})
            + Cardinality({i \in DOMAIN cubemap_uploads : cubemap_uploads[i] = id})
            + Told(LAMBDA ev : ev.of = "load" /\ ev.id = id)
            = IF id \in load_failed THEN 0 ELSE 1

\* A texture in the middle of its upload has an entry that goes on with it and
\* is told when it is done: that of the load whose pixels it holds.
UploadsHaveEntries ==
    /\ \A name \in TextureNames :
          textures[name].uploading => textures[name].pixels \in ToSet(texture_uploads)
    /\ \A id \in Loads : cubemaps[id].uploading => id \in ToSet(cubemap_uploads)
=============================================================================
