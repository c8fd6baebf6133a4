SPECIFICATION Spec
CONSTANTS
    NPages = 3
    NSlots = 2
    Warps = {w1, w2}
    AsyncWarps = {a1}
    Flag = 4
    Calls = {"read_feature", "read_feature_hetero", "read_feature_merged_hetero", "read_feature_merged",
             "read_feature_submit_async", "read_feature_wait_async", "store_tensor", "array_write",
             "read_tensor", "set_cpu_buffer", "set_window_buffering", "flush_cache"}
    None = None
    MaxCalls = 3
SYMMETRY WarpSymmetry
INVARIANTS PinsConserved AsyncCanEvict StoredNotLost ReadsStored
CHECK_DEADLOCK FALSE
