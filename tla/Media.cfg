SPECIFICATION Spec
CONSTANTS
    AV_TIME_BASE = 1000
    dts_delta_threshold = 2
    dts_error_threshold = 2
    frame_drop_threshold = 0
    max_error_rate <- MaxErrorRate
    Jobs <- MCJobs
INVARIANTS OnTime MuxerNeverGuesses SoundGapless Throttled SubtitlesApart
