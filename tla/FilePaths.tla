----------------------------- MODULE FilePaths ------------------------------
(***************************************************************************)
(* The names frozenkrill derives from the names it is given.  A path is    *)
(* cut as Rust's file_stem cuts it: what precedes the last dot, as the     *)
(* sequence of the marks it was put together from, and the extension.      *)
(* Directories are left out: every derived name stays in the directory of  *)
(* its base (with_file_name).                                              *)
(***************************************************************************)
EXTENDS Sequences

CONSTANTS
    Base,     (* what users call their files *)
    Ext       (* the extensions they use *)

Mark == Base \cup {"_pub", "_non_duress", "_signed", "_reencoded"}
Extension == Ext \cup {"json", "psbt", ""}
Path == [stem : Seq(Mark), ext : Extension]

PUB_FILE_SUFFIX == [mark |-> "_pub", ext |-> "json"]
PUB_NON_DURESS_FILE_SUFFIX == [mark |-> "_non_duress", ext |-> "json"]
SIGNED_PSBT_FILE_SUFFIX == [mark |-> "_signed", ext |-> "psbt"]
REENCODED_FILE_SUFFIX == [mark |-> "_reencoded", ext |-> ""]

\* The extension of the base is dropped: "w" and "w.enc" derive one name.
extend_base_name_with_suffix(base, suffix) ==
    [stem |-> Append(base.stem, suffix.mark), ext |-> suffix.ext]

from_wallet_to_public_info_json_path(f) ==
    extend_base_name_with_suffix(f, PUB_FILE_SUFFIX)

from_input_to_signed_psbt(f) ==
    extend_base_name_with_suffix(f, SIGNED_PSBT_FILE_SUFFIX)

from_input_to_reencoded(f) ==
    extend_base_name_with_suffix(f, REENCODED_FILE_SUFFIX)

from_public_info_json_path_to_non_duress(f) ==
    extend_base_name_with_suffix(f, PUB_NON_DURESS_FILE_SUFFIX)

=============================================================================
