--------------------------- MODULE WrapperMethods ---------------------------
EXTENDS Sequences

(***************************************************************************)
(* What the methods of git2go do with the C objects behind their receiver  *)
(* and argument, in the order in which they do it, file by file.           *)
(*                                                                         *)
(* A method is a sequence of steps:                                        *)
(*   check    return ErrInvalid when the receiver's ptr is nil             *)
(*   use      the C function works on the receiver and on the argument     *)
(*   useUp    a C function works on the repository the receiver belongs to *)
(*   read     Go copies memory that the receiver's C object owns           *)
(*   keep     runtime.KeepAlive of the receiver; keepArg, of the argument  *)
(*   make     build the wrapper of the result and set its finalizer        *)
(*   alloc    the same, with no finalizer                                  *)
(*   temp     build an Object that the method frees itself (lookupType)    *)
(*   dup      check and duplicate the temporary Object (dupObject)         *)
(*   freeTemp the deferred Free of the temporary Object                    *)
(*   give     hand the argument's C object over to the receiver's          *)
(*   field    return the wrapper that the receiver holds                   *)
(*                                                                         *)
(* Methods that take the same steps on wrappers of the same class are one  *)
(* record.  The collections (References, Notes, Submodules, Tags, Remotes, *)
(* Stashes) are fields of Repository: a pointer to one points into the     *)
(* Repository, and its methods are listed on "Repository".  A Branch or a  *)
(* ReferenceNameIterator points at the Reference or ReferenceIterator that *)
(* has the C object.  Id, Oid and Signature arguments are Go memory.       *)
(* A C error after the calls only shortens a method, and the static        *)
(* liveness of Go keeps a variable over a call when any path needs it      *)
(* afterwards, so early returns on errors are not separate steps.          *)
(***************************************************************************)

(* Methods names of class on, that take an argument of class arg and build *)
(* a wrapper of class makes; "none" where there is none.                   *)
M(on, names, arg, makes, steps) ==
    {[on |-> on, names |-> names, arg |-> arg, makes |-> makes, steps |-> steps]}

Kept      == <<"use", "keep">>
Read      == <<"use", "read", "keep">>
Late      == <<"use", "keep", "read">>
Bare      == <<"use">>
BareRead  == <<"use", "read">>
KeptMake  == <<"use", "keep", "make">>
BareMake  == <<"use", "make">>
MakeKept  == <<"use", "make", "keep">>
KeptBoth  == <<"use", "keep", "keepArg">>
ArgMake   == <<"use", "keepArg", "make">>
Duplicate == <<"use", "keep", "use", "keep", "make">>
FindTyped == <<"use", "temp", "dup", "make", "freeTemp">>

---------------------------------------------------------------------------
(* reference.go and branch.go *)

ReferenceCollectionMethods ==
    M("Repository", {"References.Lookup", "References.Create", "References.CreateSymbolic",
                     "References.Dwim"}, "none", "Reference", KeptMake)
    \cup M("Repository", {"References.EnsureLog", "References.HasLog"}, "none", "none", Kept)

(* SymbolicTarget returns its copy of the name before it reaches KeepAlive *)
ReferenceMethods ==
    M("Reference", {"Reference.SetSymbolicTarget", "Reference.SetTarget", "Reference.Resolve",
                    "Reference.Rename"}, "none", "Reference", KeptMake)
    \cup M("Reference", {"Reference.Target"}, "none", "none", Read)
    \cup M("Reference", {"Reference.SymbolicTarget"}, "none", "none", Late)
    \cup M("Reference", {"Reference.Delete"}, "none", "none", Kept)
    \cup M("Reference", {"Reference.Peel"}, "none", "Object", KeptMake)

ReferenceQueries ==
    M("Reference", {"Reference.Owner"}, "none", "WeakRepository", MakeKept)
    \cup M("Reference", {"Reference.Cmp"}, "Reference", "none", KeptBoth)
    \cup M("Reference", {"Reference.Shorthand", "Reference.Name"}, "none", "none", Read)
    \cup M("Reference", {"Reference.Type", "Reference.IsBranch", "Reference.IsRemote",
                         "Reference.IsTag", "Reference.IsNote"}, "none", "none", Kept)

ReferenceIteratorMethods ==
    M("Repository", {"NewReferenceIterator", "NewReferenceNameIterator",
                     "NewReferenceIteratorGlob"}, "none", "ReferenceIterator", BareMake)
    \cup M("ReferenceIterator", {"ReferenceNameIterator.Next"}, "none", "none", BareRead)
    \cup M("ReferenceIterator", {"ReferenceIterator.Next"}, "none", "Reference", BareMake)

(* BranchIterator.ForEach is Next over and over *)
BranchIteratorMethods ==
    M("BranchIterator", {"BranchIterator.Next"}, "none", "Reference", BareMake)
    \cup M("Repository", {"NewBranchIterator"}, "none", "BranchIterator", KeptMake)
    \cup M("Repository", {"CreateBranch"}, "Commit", "Reference",
           <<"use", "keep", "keepArg", "make">>)

BranchMethods ==
    M("Reference", {"Branch.Delete", "Branch.IsHead", "Branch.SetUpstream"}, "none", "none", Kept)
    \cup M("Reference", {"Branch.Move", "Branch.Upstream"}, "none", "Reference", KeptMake)
    \cup M("Repository", {"LookupBranch"}, "none", "Reference", KeptMake)
    \cup M("Reference", {"Branch.Name"}, "none", "none", Late)
    \cup M("Repository", {"RemoteName", "UpstreamName"}, "none", "none", Kept)

---------------------------------------------------------------------------
(* object.go, commit.go, tree.go, blob.go, tag.go *)

ObjectMethods ==
    M("Object", {"Object.Id"}, "none", "none", Read)
    \cup M("Object", {"Object.ShortId", "Object.Type"}, "none", "none", Kept)
    \cup M("Object", {"Object.Owner"}, "none", "WeakRepository", MakeKept)

(* Type, then git_object_dup of the receiver's object (dupObject) *)
ObjectConversions ==
    M("Object", {"Object.Peel"}, "none", "Object", KeptMake)
    \cup UNION {M("Object", {"Object.As" \o class}, "none", class, Duplicate) :
                  class \in {"Tree", "Commit", "Blob", "Tag"}}

(* WithSignature reads the commit and then works on its owner, through the *)
(* weak Repository of Owner.  The last use of ExtractSignature has no      *)
(* KeepAlive after it.  WithSignatureUsing and ContentToSign are calls of  *)
(* these.                                                                  *)
CommitSigning ==
    M("Commit", {"Commit.Message", "Commit.MessageEncoding", "Commit.RawMessage",
                 "Commit.RawHeader", "Commit.ContentToSign"}, "none", "none", Read)
    \cup M("Commit", {"Commit.WithSignature"}, "none", "none",
           <<"use", "keep", "use", "read", "keep", "useUp">>)
    \cup M("Commit", {"Commit.ExtractSignature"}, "none", "none",
           <<"use", "read", "keep", "use", "useUp">>)

CommitMethods ==
    M("Commit", {"Commit.Summary", "Commit.TreeId", "Commit.Author", "Commit.Committer",
                 "Commit.ParentId"}, "none", "none", Read)
    \cup M("Commit", {"Commit.ParentCount"}, "none", "none", Kept)
    \cup M("Commit", {"Commit.Tree"}, "none", "Tree", KeptMake)
    \cup M("Commit", {"Commit.Parent"}, "none", "Commit", MakeKept)
    \cup M("Commit", {"Commit.Amend"}, "Tree", "none", KeptBoth)

(* Mutant of TreeMethods: EntryByName and the like forget KeepAlive *)
TreeMethodsUnkept ==
    M("Tree", {"Tree.EntryByName", "Tree.EntryById", "Tree.EntryByIndex"}, "none", "none", BareRead)

TreeMethods ==
    M("Tree", {"Tree.EntryByName", "Tree.EntryById", "Tree.EntryByIndex"}, "none", "none", Read)
    \cup M("Tree", {"Tree.EntryByPath", "Tree.EntryCount", "Tree.Walk"}, "none", "none", Kept)

TreeBuilderMethods ==
    M("TreeBuilder", {"TreeBuilder.Insert", "TreeBuilder.Remove", "TreeBuilder.Write"},
      "none", "none", Kept)

BlobMethods ==
    M("Blob", {"Blob.Size", "Blob.IsBinary"}, "none", "none", Kept)
    \cup M("Blob", {"Blob.Contents"}, "none", "none", Read)
    \cup M("Repository", {"CreateBlobFromBuffer"}, "none", "none", Kept)
    \cup M("Repository", {"CreateFromStream"}, "none", "BlobWriteStream", BareMake)
    \cup M("BlobWriteStream", {"BlobWriteStream.Write", "BlobWriteStream.Commit"},
           "none", "none", Kept)

TagMethods ==
    M("Tag", {"Tag.Message", "Tag.Name", "Tag.Tagger", "Tag.TargetId"}, "none", "none", Read)
    \cup M("Tag", {"Tag.TargetType"}, "none", "none", Kept)
    \cup M("Tag", {"Tag.Target"}, "none", "Object", KeptMake)

TagCollectionMethods ==
    M("Repository", {"Tags.Create", "Tags.CreateLightweight"}, "Object", "none", KeptBoth)
    \cup M("Repository", {"Tags.Remove", "Tags.List", "Tags.ListWithMatch", "Tags.Foreach"},
           "none", "none", Kept)

---------------------------------------------------------------------------
(* repository.go *)

RepositoryConstructors ==
    M("none", {"OpenRepository", "OpenRepositoryExtended", "InitRepository"},
      "none", "Repository", BareMake)
    \cup M("none", {"NewRepositoryWrapOdb"}, "Odb", "Repository", ArgMake)

(* SetRefdb keeps the Repository but not the Refdb *)
RepositoryParts ==
    M("Repository", {"SetRefdb"}, "Refdb", "none", Kept)
    \cup M("Repository", {"Repository.Config"}, "none", "Config", KeptMake)
    \cup M("Repository", {"SetConfig"}, "Config", "none", KeptBoth)
    \cup M("Repository", {"Repository.Index"}, "none", "Index", BareMake)

(* lookupType and lookupPrefixType build an Object; the typed lookups      *)
(* duplicate it and free it                                                *)
RepositoryLookups ==
    M("Repository", {"Lookup", "LookupPrefix"}, "none", "Object", BareMake)
    \cup UNION {M("Repository", {"Lookup" \o class, "LookupPrefix" \o class},
                  "none", class, FindTyped) : class \in {"Tree", "Commit", "Blob", "Tag"}}

RepositoryHeads ==
    M("Repository", {"Head"}, "none", "Reference", BareMake)
    \cup M("Repository", {"SetHead", "SetHeadDetached", "IsHeadDetached", "IsHeadUnborn",
                          "IsEmpty", "IsShallow"}, "none", "none", Kept)
    \cup M("Repository", {"Walk"}, "none", "RevWalk", BareMake)

(* The commits' parents are kept over the call, the tree is not *)
CommitCreation ==
    M("Repository", {"CreateCommit(tree)", "CreateCommitBuffer(tree)"}, "Tree", "none", Kept)
    \cup M("Repository", {"CreateCommit(parents)", "CreateCommitBuffer(parents)"},
           "Commit", "none", KeptBoth)
    \cup M("Repository", {"CreateCommitWithSignature"}, "none", "none", Kept)

RepositoryQueries ==
    M("Repository", {"CreateCommitFromIds", "IsBare", "SetWorkdir"}, "none", "none", Kept)
    \cup M("Repository", {"Path", "Workdir"}, "none", "none", Read)
    \cup M("Repository", {"Repository.Odb"}, "none", "Odb", KeptMake)
    \cup M("Repository", {"Repository.TreeBuilder"}, "none", "TreeBuilder", BareMake)

(* TreeBuilderFromTree does not keep the tree *)
RepositoryState ==
    M("Repository", {"TreeBuilderFromTree"}, "Tree", "TreeBuilder", BareMake)
    \cup M("Repository", {"State", "StateCleanup", "AddGitIgnoreRules", "ClearGitIgnoreRules",
                          "Message", "RemoveMessage", "ItemPath"}, "none", "none", Kept)

---------------------------------------------------------------------------
(* The other methods of Repository: revparse.go, reset.go, graph.go,       *)
(* ignore.go, merge.go, cherrypick.go, revert.go, stash.go, checkout.go,   *)
(* status.go                                                               *)

(* Revparse and RevparseExt may build two wrappers at once; one is here    *)
Revparsing ==
    M("Repository", {"Revparse", "RevparseSingle", "RevparseExt"}, "none", "Object", BareMake)
    \cup M("Repository", {"RevparseExt"}, "none", "Reference", BareMake)

(* Neither the Repository nor the commit is kept *)
Resets == M("Repository", {"ResetToCommit", "ResetDefaultToCommit"}, "Commit", "none", Bare)

GraphQueries ==
    M("Repository", {"DescendantOf", "AheadBehind", "ReachableFromAny"}, "none", "none", Kept)

IgnoreRules ==
    M("Repository", {"AddIgnoreRule", "ClearInternalIgnoreRules", "IsPathIgnored"},
      "none", "none", Kept)

AnnotatedCommitMethods ==
    M("AnnotatedCommit", {"AnnotatedCommit.Id"}, "none", "none", Read)
    \cup M("Repository", {"AnnotatedCommitFromFetchHead", "LookupAnnotatedCommit",
                          "AnnotatedCommitFromRevspec"}, "none", "AnnotatedCommit", MakeKept)
    \cup M("Repository", {"AnnotatedCommitFromRef"}, "Reference", "AnnotatedCommit",
           <<"use", "keep", "keepArg", "make", "keep">>)

MergeMethods ==
    M("Repository", {"Merge", "MergeAnalysis"}, "AnnotatedCommit", "none", <<"use", "keepArg">>)
    \cup M("Repository", {"MergeCommits"}, "Commit", "Index", ArgMake)
    \cup M("Repository", {"MergeTrees"}, "Tree", "Index", ArgMake)
    \cup M("Repository", {"MergeBase"}, "none", "none", Kept)

MergeBases ==
    M("Repository", {"MergeBases"}, "none", "none", Bare)
    \cup M("Repository", {"MergeBaseMany", "MergeBasesMany", "MergeBaseOctopus"},
           "none", "none", Kept)

(* MergeFile works on Go memory *)
MergeFileMethods == M("none", {"MergeFile"}, "none", "MergeFileResult", BareMake)

Cherrypicks ==
    M("Repository", {"Cherrypick"}, "Commit", "none", KeptBoth)
    \cup M("Repository", {"CherrypickCommit"}, "Commit", "Index", ArgMake)

Reverts ==
    M("Repository", {"Revert"}, "Commit", "none", KeptBoth)
    \cup M("Repository", {"RevertCommit"}, "Commit", "Index", ArgMake)

StashSave  == M("Repository", {"Stashes.Save"}, "none", "none", Kept)
StashCalls ==
    M("Repository", {"Stashes.Apply", "Stashes.Foreach", "Stashes.Drop", "Stashes.Pop"},
      "none", "none", Kept)

(* CheckoutIndex does not keep the index *)
Checkouts ==
    M("Repository", {"CheckoutHead"}, "none", "none", Kept)
    \cup M("Repository", {"CheckoutIndex"}, "Index", "none", Kept)
    \cup M("Repository", {"CheckoutTree"}, "Tree", "none", KeptBoth)

StatusListMethods ==
    M("StatusList", {"StatusList.ByIndex"}, "none", "none", <<"check", "use", "read", "keep">>)
    \cup M("StatusList", {"StatusList.EntryCount"}, "none", "none", <<"check", "use", "keep">>)

StatusMethods ==
    M("Repository", {"Repository.StatusList"}, "none", "StatusList", BareMake)
    \cup M("Repository", {"StatusFile"}, "none", "none", Kept)

---------------------------------------------------------------------------
(* walk.go, note.go, submodule.go, rebase.go, packbuilder.go *)

(* Iterate is Next and LookupCommit over and over *)
RevWalkMethods ==
    M("RevWalk", {"RevWalk.Reset", "RevWalk.Push", "RevWalk.PushGlob", "RevWalk.PushRange",
                  "RevWalk.PushRef", "RevWalk.PushHead", "RevWalk.Hide", "RevWalk.HideGlob",
                  "RevWalk.HideRef", "RevWalk.HideHead"}, "none", "none", Kept)

(* Iterate is Next and LookupCommit, for a commit that goes to the caller, *)
(* and Next again until there is none                                      *)
RevWalkIteration ==
    M("RevWalk", {"RevWalk.Next", "RevWalk.SimplifyFirstParent", "RevWalk.Sorting"},
      "none", "none", Kept)
    \cup M("RevWalk", {"RevWalk.Iterate"}, "none", "Commit",
           <<"use", "keep", "useUp", "make", "use", "keep">>)

NoteCollectionMethods ==
    M("Repository", {"Notes.Create", "Notes.Remove", "Notes.DefaultRef"}, "none", "none", Kept)
    \cup M("Repository", {"Notes.Read"}, "none", "Note", KeptMake)

(* Author has no KeepAlive, Id and Committer copy after theirs *)
NoteMethods ==
    M("Note", {"Note.Author"}, "none", "none", BareRead)
    \cup M("Note", {"Note.Id", "Note.Committer"}, "none", "none", Late)
    \cup M("Note", {"Note.Message"}, "none", "none", Read)
    \cup M("Repository", {"NewNoteIterator"}, "none", "NoteIterator", KeptMake)
    \cup M("NoteIterator", {"NoteIterator.Next"}, "none", "none", Kept)

SubmoduleCollectionMethods ==
    M("Repository", {"Submodules.Lookup", "Submodules.Add"}, "none", "Submodule", BareMake)
    \cup M("Repository", {"Submodules.Foreach", "Submodules.SetUrl"}, "none", "none", Kept)
    \cup M("Submodule", {"Submodule.FinalizeAdd", "Submodule.AddToIndex"}, "none", "none", Kept)
    \cup M("Submodule", {"Submodule.Name", "Submodule.Path", "Submodule.Url"},
           "none", "none", Read)

SubmoduleMethods ==
    M("Submodule", {"Submodule.IndexId", "Submodule.HeadId", "Submodule.WdId"},
      "none", "none", Read)
    \cup M("Submodule", {"Submodule.Ignore", "Submodule.UpdateStrategy", "Submodule.Init",
                         "Submodule.Sync", "Submodule.Update"}, "none", "none", Kept)
    \cup M("Submodule", {"Submodule.FetchRecurseSubmodules"}, "none", "none", Bare)
    \cup M("Repository", {"Submodules.SetIgnore", "Submodules.SetUpdate",
                          "Submodules.SetFetchRecurseSubmodules"}, "none", "none", Kept)
    \cup M("Submodule", {"Submodule.Open"}, "none", "Repository", KeptMake)

RebaseConstructors ==
    M("Repository", {"InitRebase"}, "AnnotatedCommit", "Rebase", ArgMake)
    \cup M("Repository", {"OpenRebase"}, "none", "Rebase", KeptMake)

(* OperationAt has no KeepAlive, Next copies the operation after its own *)
RebaseMethods ==
    M("Rebase", {"Rebase.OperationAt"}, "none", "none", BareRead)
    \cup M("Rebase", {"Rebase.Next"}, "none", "none", Late)
    \cup M("Rebase", {"Rebase.CurrentOperationIndex", "Rebase.OperationCount", "Rebase.Commit",
                      "Rebase.Finish", "Rebase.Abort"}, "none", "none", Kept)
    \cup M("Rebase", {"Rebase.InmemoryIndex"}, "none", "Index", KeptMake)

PackbuilderMethods ==
    M("Repository", {"NewPackbuilder"}, "none", "Packbuilder", BareMake)
    \cup M("Packbuilder", {"Packbuilder.Insert", "Packbuilder.InsertCommit",
                           "Packbuilder.InsertTree", "Packbuilder.ObjectCount",
                           "Packbuilder.WriteToFile", "Packbuilder.Written",
                           "Packbuilder.ForEach"}, "none", "none", Kept)
    \cup M("Packbuilder", {"Packbuilder.InsertWalk"}, "RevWalk", "none", KeptBoth)

---------------------------------------------------------------------------
(* remote.go *)

(* Create and the like have no KeepAlive: the Remote, which was made before *)
(* the call, refers to the Repository                                      *)
RemoteConstructors ==
    M("Repository", {"Remotes.Create", "Remotes.CreateWithFetchspec", "Remotes.CreateAnonymous",
                     "Remotes.Lookup"}, "none", "Remote", BareMake)
    \cup M("Repository", {"Remotes.CreateWithOptions"}, "none", "Remote", KeptMake)

RemoteList == M("Repository", {"Remotes.List", "Remotes.Delete"}, "none", "none", Kept)

(* Copied from the remote after KeepAlive *)
RemoteNames == M("Remote", {"Remote.Name", "Remote.Url", "Remote.PushUrl"}, "none", "none", Late)

RemoteSettings ==
    M("Repository", {"Remotes.Rename", "Remotes.SetUrl", "Remotes.SetPushUrl",
                     "Remotes.AddFetch"}, "none", "none", Kept)

RemoteRefspecs ==
    M("Remote", {"Remote.FetchRefspecs", "Remote.PushRefspecs", "Remote.RefspecCount"},
      "none", "none", Kept)
    \cup M("Repository", {"Remotes.AddPush"}, "none", "none", Kept)

RemoteTransfers ==
    M("Remote", {"Remote.Fetch", "Remote.Connect", "Remote.Disconnect"}, "none", "none", Kept)

(* Ls copies the heads, which the remote owns, after KeepAlive *)
RemoteHeads == M("Remote", {"Remote.Ls"}, "none", "none", Late)

RemotePushes ==
    M("Remote", {"Remote.Push", "Remote.Prune"}, "none", "none", Kept)
    \cup M("Remote", {"Remote.PruneRefs"}, "none", "none", Bare)

---------------------------------------------------------------------------
(* config.go *)

ConfigReads ==
    M("none", {"NewConfig"}, "none", "Config", <<"use", "alloc">>)
    \cup M("Config", {"Config.AddFile", "Config.LookupInt32", "Config.LookupInt64",
                      "Config.LookupString", "Config.LookupBool"}, "none", "none", Kept)
    \cup M("Config", {"Config.NewMultivarIterator"}, "none", "ConfigIterator", BareMake)

(* NewIterator and NewIteratorGlob set no finalizer *)
ConfigWrites ==
    M("Config", {"Config.NewIterator", "Config.NewIteratorGlob"},
      "none", "ConfigIterator", <<"use", "alloc">>)
    \cup M("Config", {"Config.SetString", "Config.SetInt32", "Config.SetInt64",
                      "Config.SetBool", "Config.SetMultivar", "Config.Delete"},
           "none", "none", Kept)

(* Nor do OpenLevel, OpenOndisk and OpenDefault for the Config they return *)
ConfigOpens ==
    M("Config", {"Config.OpenLevel"}, "Config", "Config", <<"use", "keep", "keepArg", "alloc">>)
    \cup M("none", {"OpenOndisk"}, "none", "Config", <<"use", "alloc">>)
    \cup M("ConfigIterator", {"ConfigIterator.Next"}, "none", "none", Read)

OpenDefault == M("none", {"OpenDefault"}, "none", "Config", <<"use", "alloc">>)

---------------------------------------------------------------------------
(* index.go *)

IndexWrites ==
    M("none", {"NewIndex", "OpenIndex"}, "none", "Index", BareMake)
    \cup M("Index", {"Index.Path"}, "none", "none", Read)
    \cup M("Index", {"Index.Clear", "Index.Add", "Index.AddByPath", "Index.AddAll"},
           "none", "none", Kept)
    \cup M("Index", {"Index.AddFromBuffer"}, "none", "none", Bare)

IndexMatches == M("Index", {"Index.UpdateAll", "Index.RemoveAll"}, "none", "none", Kept)

IndexTrees ==
    M("Index", {"Index.RemoveByPath", "Index.RemoveDirectory", "Index.WriteTree", "Index.Write",
                "Index.EntryCount", "Index.Find"}, "none", "none", Kept)
    \cup M("Index", {"Index.WriteTreeTo"}, "Repository", "none", KeptBoth)
    \cup M("Index", {"Index.ReadTree"}, "Tree", "none", KeptBoth)
    \cup M("Index", {"Index.EntryByIndex", "Index.EntryByPath"}, "none", "none", Read)

IndexConflicts ==
    M("Index", {"Index.FindPrefix", "Index.HasConflicts", "Index.CleanupConflicts",
                "Index.AddConflict", "Index.RemoveConflict"}, "none", "none", Kept)
    \cup M("Index", {"Index.Conflict"}, "none", "none", Read)

IndexConflictIterators ==
    M("Index", {"Index.ConflictIterator"}, "none", "IndexConflictIterator", BareMake)
    \cup M("IndexConflictIterator", {"IndexConflictIterator.Next"}, "none", "none", Read)
    \cup M("IndexConflictIterator", {"IndexConflictIterator.Index"}, "none", "none", <<"field">>)

---------------------------------------------------------------------------
(* odb.go, mempack.go, refdb.go, indexer.go *)

(* AddAlternate and AddBackend free the backend that git refuses *)
OdbMethods ==
    M("none", {"NewOdb"}, "none", "Odb", BareMake)
    \cup M("none", {"NewOdbBackendOnePack", "NewOdbBackendLoose"}, "none", "OdbBackend",
           <<"use", "alloc">>)
    \cup M("Odb", {"Odb.AddAlternate", "Odb.AddBackend"}, "OdbBackend", "none",
           <<"use", "keep", "give">>)
    \cup M("Odb", {"Odb.ReadHeader", "Odb.Exists", "Odb.Write"}, "none", "none", Kept)

OdbReads ==
    M("Odb", {"Odb.Read"}, "none", "OdbObject", KeptMake)
    \cup M("Odb", {"Odb.Refresh", "Odb.WriteMultiPackIndex", "Odb.ForEach"}, "none", "none", Kept)

OdbStreams ==
    M("Odb", {"Odb.NewReadStream"}, "none", "OdbReadStream", KeptMake)
    \cup M("Odb", {"Odb.NewWriteStream"}, "none", "OdbWriteStream", KeptMake)
    \cup M("Odb", {"Odb.NewWritePack"}, "none", "OdbWritepack", KeptMake)

(* Data returns the object's own memory: "You must make sure the object is *)
(* referenced for at least as long as the slice is used."                  *)
OdbObjectMethods ==
    M("OdbObject", {"OdbObject.Id"}, "none", "none", Read)
    \cup M("OdbObject", {"OdbObject.Len", "OdbObject.Type"}, "none", "none", Kept)
    \cup M("OdbObject", {"OdbObject.Data"}, "none", "none", BareRead)

OdbStreamMethods ==
    M("OdbReadStream", {"OdbReadStream.Read"}, "none", "none", Kept)
    \cup M("OdbWriteStream", {"OdbWriteStream.Write", "OdbWriteStream.Close"},
           "none", "none", Kept)
    \cup M("OdbWritepack", {"OdbWritepack.Write", "OdbWritepack.Commit"}, "none", "none", Kept)

(* The Odb owns the mempack's backend once it has added it, and the        *)
(* Mempack does not hold the Odb                                           *)
MempackMethods ==
    M("Odb", {"NewMempack"}, "none", "Mempack", <<"use", "keep", "alloc">>)
    \cup M("Mempack", {"Mempack.Dump"}, "Repository", "none", <<"use", "keepArg">>)
    \cup M("Mempack", {"Mempack.Reset"}, "none", "none", Bare)

RefdbMethods ==
    M("Repository", {"NewRefdb"}, "none", "Refdb", BareMake)
    \cup M("none", {"NewRefdbBackendFromC"}, "none", "RefdbBackend", <<"alloc">>)
    \cup M("Refdb", {"Refdb.SetBackend"}, "RefdbBackend", "none",
           <<"use", "keep", "keepArg", "give">>)

IndexerMethods ==
    M("Odb", {"NewIndexer"}, "none", "Indexer", KeptMake)
    \cup M("Indexer", {"Indexer.Write"}, "none", "none", Kept)
    \cup M("Indexer", {"Indexer.Commit"}, "none", "none", Read)

---------------------------------------------------------------------------
(* diff.go, patch.go, blame.go, describe.go, refspec.go, credentials.go *)

DiffMethods ==
    M("Diff", {"Diff.NumDeltas"}, "none", "none", <<"check", "use", "keep">>)
    \cup M("Diff", {"Diff.Delta"}, "none", "none", <<"check", "use", "read", "keep">>)
    \cup M("Diff", {"Diff.FindSimilar"}, "none", "none", Kept)

DiffStatsMethods ==
    M("DiffStats", {"DiffStats.Insertions", "DiffStats.Deletions", "DiffStats.FilesChanged",
                    "DiffStats.String"}, "none", "none", Kept)
    \cup M("Diff", {"Diff.Stats"}, "none", "DiffStats", KeptMake)

DiffOutputs ==
    M("Diff", {"Diff.Patch"}, "none", "Patch", <<"check", "use", "keep", "make">>)
    \cup M("Diff", {"Diff.ForEach", "Diff.ToBuf"}, "none", "none", <<"check", "use", "keep">>)

DiffConstructors ==
    M("Repository", {"DiffTreeToTree", "DiffTreeToWorkdir", "DiffTreeToIndex(tree)",
                     "DiffTreeToWorkdirWithIndex"}, "Tree", "Diff", ArgMake)
    \cup M("Repository", {"DiffTreeToIndex(index)", "DiffIndexToWorkdir"}, "Index", "Diff", ArgMake)

DiffBlobs == M("Blob", {"DiffBlobs"}, "Blob", "none", KeptBoth)

DiffApplications ==
    M("Repository", {"ApplyDiff"}, "Diff", "none", KeptBoth)
    \cup M("Repository", {"ApplyToTree(diff)"}, "Diff", "Index", ArgMake)
    \cup M("Repository", {"ApplyToTree(tree)"}, "Tree", "Index", ArgMake)

DiffBuffers == M("Repository", {"DiffFromBuffer"}, "none", "Diff", <<"make">>)

PatchMethods ==
    M("Patch", {"Patch.String"}, "none", "none", <<"check", "use", "keep">>)
    \cup M("none", {"PatchFromBuffers"}, "none", "Patch", BareMake)

(* HunkByIndex and HunkByLine copy the hunk after KeepAlive *)
BlameMethods ==
    M("Repository", {"BlameFile"}, "none", "Blame", KeptMake)
    \cup M("Blame", {"Blame.HunkCount"}, "none", "none", Kept)
    \cup M("Blame", {"Blame.HunkByIndex", "Blame.HunkByLine"}, "none", "none", Late)

DescribeMethods ==
    M("Commit", {"Commit.Describe"}, "none", "DescribeResult", KeptMake)
    \cup M("Repository", {"DescribeWorkdir"}, "none", "DescribeResult", KeptMake)
    \cup M("DescribeResult", {"DescribeResult.Format"}, "none", "none", Kept)

RefspecMethods ==
    M("none", {"ParseRefspec"}, "none", "Refspec", BareMake)
    \cup M("Refspec", {"Refspec.Direction", "Refspec.Force", "Refspec.SrcMatches",
                       "Refspec.DstMatches", "Refspec.Transform", "Refspec.Rtransform"},
           "none", "none", Bare)
    \cup M("Refspec", {"Refspec.Src", "Refspec.Dst", "Refspec.String"}, "none", "none", Read)

CredentialMethods ==
    M("Credential", {"Credential.HasUsername", "Credential.Type"}, "none", "none", Bare)
    \cup M("Credential", {"Credential.GetUserpassPlaintext", "Credential.GetSSHKey"},
           "none", "none", <<"use", "use", "read">>)
    \cup M("none", {"NewCredentialUsername", "NewCredentialUserpassPlaintext",
                    "NewCredentialSSHKey", "NewCredentialSSHKeyFromMemory",
                    "NewCredentialSSHKeyFromAgent", "NewCredentialSSHKeyFromSigner",
                    "NewCredentialDefault"}, "none", "Credential", BareMake)

(* transport.go: the credential that the remote's callback gives, in a new *)
(* wrapper                                                                 *)
SmartCredentials == M("none", {"Transport.SmartCredentials"}, "none", "Credential", BareMake)

---------------------------------------------------------------------------
(* Every definition above *)
Listed ==
    UNION {ReferenceCollectionMethods, ReferenceMethods, ReferenceQueries,
           ReferenceIteratorMethods, BranchIteratorMethods, BranchMethods,
           ObjectMethods, ObjectConversions, CommitSigning, CommitMethods,
           TreeMethods, TreeBuilderMethods, BlobMethods, TagMethods,
           TagCollectionMethods, RepositoryConstructors, RepositoryParts,
           RepositoryLookups, RepositoryHeads, CommitCreation, RepositoryQueries,
           RepositoryState, Revparsing, Resets, GraphQueries, IgnoreRules,
           AnnotatedCommitMethods, MergeMethods, MergeBases, MergeFileMethods,
           Cherrypicks, Reverts, StashSave, StashCalls, Checkouts, StatusListMethods,
           StatusMethods, RevWalkMethods, NoteCollectionMethods, NoteMethods,
           SubmoduleCollectionMethods, SubmoduleMethods, RebaseConstructors,
           RebaseMethods, PackbuilderMethods, RemoteConstructors,
           RemoteList, RemoteNames, RemoteSettings, RemoteRefspecs,
           RemoteTransfers, RemoteHeads, RemotePushes, ConfigReads, ConfigWrites,
           ConfigOpens, IndexWrites, IndexMatches, IndexTrees, IndexConflicts,
           IndexConflictIterators, OdbMethods, OdbReads, OdbStreams,
           OdbObjectMethods, OdbStreamMethods, MempackMethods, RefdbMethods,
           IndexerMethods, DiffMethods, DiffStatsMethods, DiffOutputs,
           DiffConstructors, DiffApplications, PatchMethods, BlameMethods,
           DescribeMethods, RefspecMethods, CredentialMethods,
           RevWalkIteration, DiffBuffers, SmartCredentials, OpenDefault,
           DiffBlobs}

(* Methods of several definitions that take the same steps are one, too *)
Methods ==
    LET Alike(m) == {n \in Listed : [n EXCEPT !.names = {}] = [m EXCEPT !.names = {}]}
    IN  {[m EXCEPT !.names = UNION {n.names : n \in Alike(m)}] : m \in Listed}
=============================================================================
