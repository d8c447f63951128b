SPECIFICATION FairSpec
CONSTANTS
          none = none
          Device = {d1, d2, d3}
          Good = {d1, d2}
PROPERTIES RetryIsTried
